---- MODULE Spec2Model ----
(***************************************************************************)
(* The change scheduler of auto-git: ChangeHandler in                      *)
(* src/auto_git/watcher.py, driven by filesystem events delivered by       *)
(* watchdog threads, by threading.Timer callbacks and by the stop flag     *)
(* that the watch command sets from its signal handler.                    *)
(*                                                                         *)
(* Every thread that can run code of ChangeHandler has a position in pc.   *)
(* The sections under `with self._lock` are split where they read the stop *)
(* flag, which is set without the lock.  is_alive() of a timer is read in  *)
(* the step that acts on it: a timer thread can only end meanwhile, which  *)
(* is the same as its ending right after the step.  A timer object is a    *)
(* slot of TimerIds; a slot is used again once its thread has ended.       *)
(*                                                                         *)
(* The second part is the history commands: fix with apply_fix_plan and    *)
(* amend_unpushed with rewrite_commits (src/auto_git/git/history.py and    *)
(* src/auto_git/cli.py), run on a repository of commit objects with one    *)
(* branch, together with commit, apply and the watcher's call of           *)
(* apply_commits, and lint_commit_dict of src/auto_git/validation.py.      *)
(* Spec follows the watcher with no history command running; SpecHistory   *)
(* follows one command with the watcher off; SpecFixRace follows fix with  *)
(* a commit made by another process while the oracle is asked; SpecLint    *)
(* follows one call of lint_commit_dict.                                   *)
(***************************************************************************)
EXTENDS Integers, FiniteSets, Sequences, TLC

\* ---- bounds of the model ------------------------------------------------
MaxTime == 3
MaxEvents == 2
MaxTimers == 2

\* interval_seconds values explored (watcher.py:26 keeps it >= 0)
Intervals == {0, 1, 2}

\* `None` for _next_run_time and for _timer
NoTime == -1
NoTimer == 0
NoThread == 0

TimerIds == 1..MaxTimers
EventThreads == {101, 102}
Threads == TimerIds \cup EventThreads

VARIABLES
  now,            \* value self._clock() returns
  interval,       \* self.interval_seconds
  stop,           \* self.stop_event.is_set()
  pending,        \* self._pending
  processing,     \* self._processing
  timer,          \* self._timer: NoTimer or the id of a timer thread
  last_run_time,  \* self._last_run_time (0 until the first run)
  next_run_time,  \* self._next_run_time (NoTime for None)
  lock,           \* holder of self._lock, NoThread when free
  pc,             \* position of every thread
  delay,          \* per thread: the delay_seconds argument of _schedule_locked
  exc,            \* per thread: the apply routine raised and the exception is in flight
  due,            \* per timer: the clock value at which its wait ends (0 when not waiting)
  delivered,      \* number of on_any_event calls made so far
  \* history of the run, read by the properties only
  lastEv,         \* how the latest event was marked: "during" a run or while "idle"
  runsSinceEv,    \* apply runs started since the latest event was marked
  win,            \* the window opened by an event that found the handler idle
  runlog,         \* start and completion times of the latest two apply runs
  stopAt,         \* the lock holder and its position when the stop flag was set
  stopSeen,       \* the places that have read the stop flag as set
  early,          \* some timer has called back before its wait ended by the clock
  lastPath        \* the kind of path of the latest event delivered

\* ---- bounds of the repository model ------------------------------------
MaxCommits == 3
MaxPlan == 3
MaxProposals == 2
MaxText == 2

\* validation.py:23: the longest title lint_commit_dict accepts
TitleLimit == 75

\* `None` for a commit id (base_parent, last_new, a missing upstream)
NoCommit == 0

\* no result of lint_commit_dict yet
NoSubject == [raised |-> "none", subject |-> <<>>]

VARIABLES
  objs,           \* the commit objects of the repository; a commit's id is its index
  head,           \* the commit the current branch (and HEAD) points at
  upstream,       \* the commit get_upstream_ref resolves to, NoCommit without upstream
  worktree,       \* the checked-out tree and the kind of uncommitted change, if any
  command,        \* the command being run: "fix", "amend" or "none"
  force,          \* --force of `fix`
  max_count,      \* --max-count
  allow_dirty,    \* --allow-dirty of `amend_unpushed`
  commits,        \* the range read by the command, oldest first
  plan,           \* the rewrite plan the oracle returned for `fix`
  amendments,     \* the sorted amendments of `amend_unpushed`
  hpc,            \* position of the command
  base_parent,    \* local of apply_fix_plan / rewrite_commits
  last_new,       \* local of apply_fix_plan / rewrite_commits
  k,              \* index of the loop over the entries
  outcome,        \* "none" while running, then the result or the error
  \* history of the call, read by the properties only
  head0,          \* the branch pointer when the command started
  objs0,          \* the number of commit objects when the command started
  worktree0,      \* the working tree when the command started
  moves,          \* how often the branch pointer has been set during the call
  firstOutcome    \* the outcome of the first call when the call is repeated

VARIABLES
  dry_run,        \* --dry-run of `commit` and `amend_unpushed`
  commit_list,    \* the proposed commits given to `commit` or apply_commits
  staged,         \* the index: the proposals whose files are staged, not committed
  committed_subjects, \* local of apply_commits
  subject,        \* local of apply_commits: what lint_commit_dict gave
  oplog           \* history: what was done for which proposal, in order

watcher == <<now, interval, stop, pending, processing, timer, last_run_time,
             next_run_time, lock, pc, delay, exc, due, delivered,
             lastEv, runsSinceEv, win, runlog, stopAt, stopSeen, early, lastPath>>

repository == <<objs, head, upstream, worktree>>

call == <<command, force, max_count, allow_dirty, dry_run, commit_list,
          commits, plan, amendments, hpc, base_parent, last_new, k, outcome>>

batch == <<staged, committed_subjects, subject, oplog>>

callHistory == <<head0, objs0, worktree0, moves, firstOutcome>>

history == <<repository, call, callHistory, batch>>

vars == <<watcher, history>>

hist == <<lastEv, runsSinceEv, win, runlog, stopAt, stopSeen, early, lastPath>>

\* the events followed: without an interval the clock is read only to be
\* stored (watcher.py:88 guards every comparison), so it is held still (Tick)
\* and one more event is followed instead
EventBudget == IF interval > 0 THEN MaxEvents ELSE MaxEvents + 1

Max(a, b) == IF a >= b THEN a ELSE b

\* threading.Thread.is_alive of a timer: true from start() until the thread ends
is_alive(t) == pc[t] # "dead"

\* where a thread goes when on_any_event / the timer callback returns
Ret(t) == IF t \in EventThreads THEN "idle" ELSE "returned"

\* no window is being followed
NoWindow ==
  [open |-> FALSE, events |-> 0, arms |-> 0, runs |-> 0, fired |-> FALSE,
   deadline |-> NoTime]

\* nobody is inside on_any_event past the lock or inside a timer callback, and
\* no timer waits
Quiescent == \A t \in Threads : pc[t] \in {"idle", "dead", "returned"}

\* the handler as an event finds it when nothing is pending, running or armed
HandlerIdle ==
  /\ ~pending /\ ~processing
  /\ \A t \in Threads : pc[t] \in {"idle", "ev_lock", "dead", "returned"}

\* no history command runs while the watcher is observed: the repository is
\* one commit and the command is "none"
NoCommand ==
  /\ objs = <<[tree |-> 1, parents |-> <<>>, title |-> <<"old", 1>>, body |-> <<>>]>>
  /\ head = 1 /\ upstream = NoCommit
  /\ worktree = [tree |-> 1, uncommitted |-> "none"]
  /\ command = "none" /\ force = FALSE /\ allow_dirty = FALSE /\ max_count = 1
  /\ dry_run = FALSE /\ commit_list = <<>>
  /\ staged = {} /\ committed_subjects = <<>> /\ subject = NoSubject /\ oplog = <<>>
  /\ commits = <<>> /\ amendments = <<>>
  /\ plan = [mergeStrategy |-> "", rewrittenCommits |-> <<>>]
  /\ hpc = "done"
  /\ base_parent = NoCommit /\ last_new = NoCommit /\ k = 0
  /\ outcome = "none"
  /\ head0 = 1 /\ objs0 = 1 /\ worktree0 = worktree
  /\ moves = 0 /\ firstOutcome = "none"

Init ==
  /\ now = 1
  /\ interval \in Intervals
  /\ stop = FALSE
  /\ pending = FALSE
  /\ processing = FALSE
  /\ timer = NoTimer
  /\ last_run_time = 0
  /\ next_run_time = NoTime
  /\ lock = NoThread
  /\ pc = [t \in Threads |-> IF t \in EventThreads THEN "idle" ELSE "dead"]
  /\ delay = [t \in Threads |-> 0]
  /\ exc = [t \in Threads |-> FALSE]
  /\ due = [s \in TimerIds |-> 0]
  /\ delivered = 0
  /\ lastEv = "none"
  /\ runsSinceEv = 0
  /\ win = NoWindow
  /\ runlog = [prevStart |-> NoTime, prevDone |-> NoTime, lastDone |-> NoTime]
  /\ stopAt = [holder |-> NoThread, at |-> "none"]
  /\ stopSeen = {}
  /\ early = FALSE
  /\ lastPath = "none"
  /\ NoCommand

\* WindowFor with the `is None` test lost: every call starts the window again
WindowRestart(nrt, last, t, iv) ==
  IF last > 0 THEN last + iv ELSE t + iv

\* the window computation shared by on_any_event (lines 156-160) and
\* _process_pending (lines 92-96)
WindowFor(nrt, last, t, iv) ==
  IF nrt # NoTime THEN nrt
  ELSE IF last > 0 THEN last + iv ELSE t + iv

\* flags that the lock protects and that each step may leave alone
KeepSched == UNCHANGED <<pending, processing, timer, last_run_time, next_run_time>>
KeepEnv == UNCHANGED <<now, interval, stop>>
KeepTimers == UNCHANGED due

\* the return from on_any_event / the timer callback; an exception that is
\* still in flight leaves with it
Return(t) ==
  /\ pc' = [pc EXCEPT ![t] = Ret(t)]
  /\ delay' = [delay EXCEPT ![t] = 0]
  /\ exc' = [exc EXCEPT ![t] = FALSE]

\* history: a place has read the stop flag; it is recorded when the flag was set
SawStop(place) == stopSeen' = IF stop THEN stopSeen \cup {place} ELSE stopSeen

\* ---- on_any_event (watcher.py:136-168) ---------------------------------

\* the paths an event can carry: a file git tracks or would track, a path
\* inside .git, and a path that a .gitignore rule excludes
EventPaths == {"tracked", "git_dir", "git_ignored"}

\* lines 143-146: the relative path starts with one of ignore_dirs, which the
\* watch command sets to [".git"] (cli.py:288)
InIgnoreDirs(path) == path = "git_dir"

\* git/core.py:73-83
is_git_ignored(path) == path \in {"git_dir", "git_ignored"}

\* lines 141-148: the tests that make on_any_event return at once
Discarded(path) == stop \/ InIgnoreDirs(path) \/ is_git_ignored(path)

\* OnAnyEventDiscard with the lines 152-153 run before the tests
OnAnyEventDiscardMarks(e, path) ==
  /\ pc[e] = "idle"
  /\ delivered < EventBudget
  /\ Discarded(path)
  /\ delivered' = delivered + 1
  /\ pending' = TRUE
  /\ SawStop("event")
  /\ lastPath' = path
  /\ UNCHANGED <<now, interval, stop, processing, timer, last_run_time,
                 next_run_time, lock, pc, delay, exc, due>>
  /\ UNCHANGED <<lastEv, runsSinceEv, win, runlog, stopAt, early>>
  /\ UNCHANGED history

\* lines 141-148: the event is discarded: the stop flag is set, the path is
\* under an ignored directory or git ignores it
OnAnyEventDiscard(e, path) ==
  /\ pc[e] = "idle"
  /\ delivered < EventBudget
  /\ Discarded(path)
  /\ delivered' = delivered + 1
  /\ SawStop("event")
  /\ lastPath' = path
  /\ UNCHANGED <<now, interval, stop, pending, processing, timer, last_run_time,
                 next_run_time, lock, pc, delay, exc, due>>
  /\ UNCHANGED <<lastEv, runsSinceEv, win, runlog, stopAt, early>>
  /\ UNCHANGED history

\* lines 141-148 passed: the stop flag was clear and the path is not ignored
OnAnyEventAccept(e, path) ==
  /\ pc[e] = "idle"
  /\ delivered < EventBudget
  /\ ~Discarded(path)
  /\ delivered' = delivered + 1
  /\ pc' = [pc EXCEPT ![e] = "ev_lock"]
  /\ lastPath' = path
  /\ UNCHANGED <<now, interval, stop, pending, processing, timer, last_run_time,
                 next_run_time, lock, delay, exc, due>>
  /\ UNCHANGED <<lastEv, runsSinceEv, win, runlog, stopAt, stopSeen, early>>
  /\ UNCHANGED history

\* OnAnyEventLocked without the test of interval_seconds: every event goes
\* through a timer
OnAnyEventLockedAlwaysSchedules(e) ==
  /\ pc[e] = "ev_lock"
  /\ lock = NoThread
  /\ pending' = TRUE
  /\ next_run_time' = WindowFor(next_run_time, last_run_time, now, interval)
  /\ delay' = [delay EXCEPT ![e] = next_run_time' - now]
  /\ lock' = e
  /\ pc' = [pc EXCEPT ![e] = "sched_stop"]
  /\ UNCHANGED <<processing, timer, last_run_time, exc, delivered>>
  /\ KeepEnv /\ KeepTimers
  /\ lastEv' = IF processing THEN "during" ELSE "idle"
  /\ runsSinceEv' = 0
  /\ win' = IF interval > 0 /\ ~stop /\ HandlerIdle
              THEN [NoWindow EXCEPT !.open = TRUE, !.events = 1,
                                    !.deadline = next_run_time']
            ELSE IF win.open /\ now >= win.deadline THEN NoWindow
            ELSE IF win.open THEN [win EXCEPT !.events = Max(2, win.events + 1)]
            ELSE win
  /\ UNCHANGED <<runlog, stopAt, stopSeen, early, lastPath>>
  /\ UNCHANGED history

\* lines 152-165: with the lock, mark pending; with an interval compute the
\* window and go on to _schedule_locked, else release and call _process_pending
OnAnyEventLocked(e) ==
  /\ pc[e] = "ev_lock"
  /\ lock = NoThread
  /\ pending' = TRUE
  /\ IF interval > 0
       THEN /\ next_run_time' = WindowFor(next_run_time, last_run_time, now, interval)
            /\ delay' = [delay EXCEPT ![e] = next_run_time' - now]
            /\ lock' = e
            /\ pc' = [pc EXCEPT ![e] = "sched_stop"]
       ELSE /\ pc' = [pc EXCEPT ![e] = "pp_lock"]
            /\ UNCHANGED <<next_run_time, delay, lock>>
  /\ UNCHANGED <<processing, timer, last_run_time, exc, delivered>>
  /\ KeepEnv /\ KeepTimers
  /\ lastEv' = IF processing THEN "during" ELSE "idle"
  /\ runsSinceEv' = 0
  /\ win' = IF interval > 0 /\ ~stop /\ HandlerIdle
              THEN [NoWindow EXCEPT !.open = TRUE, !.events = 1,
                                    !.deadline = next_run_time']
            ELSE IF win.open /\ now >= win.deadline THEN NoWindow
            ELSE IF win.open THEN [win EXCEPT !.events = Max(2, win.events + 1)]
            ELSE win
  /\ UNCHANGED <<runlog, stopAt, stopSeen, early, lastPath>>
  /\ UNCHANGED history

\* ---- _schedule_locked (watcher.py:56-72), called with the lock held ----

\* ScheduleStopCheck without the test of the stop flag
ScheduleStopCheckNoStop(t) ==
  /\ pc[t] = "sched_stop"
  /\ pc' = [pc EXCEPT ![t] = "sched_arm"]
  /\ UNCHANGED <<lock, delay, exc>>
  /\ KeepSched /\ KeepEnv /\ KeepTimers /\ UNCHANGED delivered
  /\ UNCHANGED hist
  /\ UNCHANGED history

\* line 61: the stop flag is read
ScheduleStopCheck(t) ==
  /\ pc[t] = "sched_stop"
  /\ IF stop
       THEN /\ Return(t)
            /\ lock' = NoThread
       ELSE /\ pc' = [pc EXCEPT ![t] = "sched_arm"]
            /\ UNCHANGED <<lock, delay, exc>>
  /\ KeepSched /\ KeepEnv /\ KeepTimers /\ UNCHANGED delivered
  /\ SawStop("schedule")
  /\ UNCHANGED <<lastEv, runsSinceEv, win, runlog, stopAt, early, lastPath>>
  /\ UNCHANGED history

\* lines 63-64: a live timer is kept
ScheduleKeep(t) ==
  /\ pc[t] = "sched_arm"
  /\ timer # NoTimer /\ is_alive(timer)
  /\ Return(t)
  /\ lock' = NoThread
  /\ KeepSched /\ KeepEnv /\ KeepTimers /\ UNCHANGED delivered
  /\ UNCHANGED hist
  /\ UNCHANGED history

\* lines 65-72: the timer object s is created, stored and started, and
\* _schedule_locked and its caller return
StartTimer(t, s) ==
  /\ s \in TimerIds /\ pc[s] = "dead"
  /\ \A r \in TimerIds : pc[r] = "dead" => s <= r
  /\ timer' = s
  /\ pc' = [pc EXCEPT ![t] = Ret(t), ![s] = "armed"]
  /\ delay' = [delay EXCEPT ![t] = 0, ![s] = Max(0, delay[t])]
  /\ exc' = [exc EXCEPT ![t] = FALSE]
  /\ due' = [due EXCEPT ![s] = now + Max(0, delay[t])]
  /\ lock' = NoThread
  /\ UNCHANGED <<pending, processing, last_run_time, next_run_time, delivered>>
  /\ KeepEnv
  /\ win' = IF win.open THEN [win EXCEPT !.arms = win.arms + 1] ELSE win
  /\ UNCHANGED <<lastEv, runsSinceEv, runlog, stopAt, stopSeen, early, lastPath>>
  /\ UNCHANGED history

\* ScheduleArm without the test for a live timer
ScheduleArmOverLive(t, s) ==
  /\ pc[t] = "sched_arm"
  /\ StartTimer(t, s)

\* lines 63-72: no live timer is stored, so a new one is armed
ScheduleArm(t, s) ==
  /\ pc[t] = "sched_arm"
  /\ ~(timer # NoTimer /\ is_alive(timer))
  /\ StartTimer(t, s)

\* ---- _process_pending (watcher.py:74-134) ------------------------------

\* ProcessLock without the test of the stop flag
ProcessLockNoStopCheck(t) ==
  /\ pc[t] = "pp_lock"
  /\ lock = NoThread
  /\ pc' = [pc EXCEPT ![t] = "pp_cs"]
  /\ lock' = t
  /\ UNCHANGED <<delay, exc>>
  /\ KeepSched /\ KeepEnv /\ KeepTimers /\ UNCHANGED delivered
  /\ UNCHANGED hist
  /\ UNCHANGED history

\* lines 78-80: take the lock and read the stop flag
ProcessLock(t) ==
  /\ pc[t] = "pp_lock"
  /\ lock = NoThread
  /\ IF stop
       THEN /\ Return(t)
            /\ UNCHANGED lock
       ELSE /\ pc' = [pc EXCEPT ![t] = "pp_cs"]
            /\ lock' = t
            /\ UNCHANGED <<delay, exc>>
  /\ KeepSched /\ KeepEnv /\ KeepTimers /\ UNCHANGED delivered
  /\ SawStop("process")
  /\ UNCHANGED <<lastEv, runsSinceEv, win, runlog, stopAt, early, lastPath>>
  /\ UNCHANGED history

\* ProcessBusy that takes the pending mark with it
ProcessBusyDropsPending(t) ==
  /\ pc[t] = "pp_cs"
  /\ processing
  /\ pending' = FALSE
  /\ Return(t)
  /\ lock' = NoThread
  /\ UNCHANGED <<processing, timer, last_run_time, next_run_time>>
  /\ KeepEnv /\ KeepTimers /\ UNCHANGED delivered
  /\ UNCHANGED hist
  /\ UNCHANGED history

\* lines 81-82: a run is in progress
ProcessBusy(t) ==
  /\ pc[t] = "pp_cs"
  /\ processing
  /\ Return(t)
  /\ lock' = NoThread
  /\ KeepSched /\ KeepEnv /\ KeepTimers /\ UNCHANGED delivered
  /\ UNCHANGED hist
  /\ UNCHANGED history

\* lines 83-85: nothing is pending
ProcessNothing(t) ==
  /\ pc[t] = "pp_cs"
  /\ ~processing /\ ~pending
  /\ timer' = NoTimer
  /\ Return(t)
  /\ lock' = NoThread
  /\ UNCHANGED <<pending, processing, last_run_time, next_run_time, delivered>>
  /\ KeepEnv /\ KeepTimers
  /\ UNCHANGED hist
  /\ UNCHANGED history

\* lines 87-101: too early for the window: re-arm for the remaining time
ProcessEarly(t) ==
  /\ pc[t] = "pp_cs"
  /\ ~processing /\ pending
  /\ interval > 0
  /\ LET w == WindowFor(next_run_time, last_run_time, now, interval) IN
       /\ now < w
       /\ next_run_time' = w
       /\ delay' = [delay EXCEPT ![t] = w - now]
  /\ timer' = NoTimer
  /\ pc' = [pc EXCEPT ![t] = "sched_stop"]
  /\ UNCHANGED <<pending, processing, last_run_time, lock, exc, delivered>>
  /\ KeepEnv /\ KeepTimers
  /\ UNCHANGED hist
  /\ UNCHANGED history

\* ClaimSlot with the apply routine moved inside `with self._lock`
ClaimSlotHoldsLock(t) ==
  /\ processing' = TRUE
  /\ pending' = FALSE
  /\ last_run_time' = now
  /\ timer' = NoTimer
  /\ next_run_time' = NoTime
  /\ lock' = t
  /\ pc' = [pc EXCEPT ![t] = "apply"]
  /\ UNCHANGED <<delay, exc, delivered>>
  /\ KeepEnv /\ KeepTimers
  /\ runsSinceEv' = runsSinceEv + 1
  /\ win' = IF win.open THEN [win EXCEPT !.runs = win.runs + 1] ELSE win
  /\ runlog' = [prevStart |-> IF last_run_time > 0 THEN last_run_time ELSE NoTime,
                prevDone |-> runlog.lastDone,
                lastDone |-> NoTime]
  /\ UNCHANGED <<lastEv, stopAt, stopSeen, early, lastPath>>
  /\ UNCHANGED history

\* lines 103-109: the processing slot is taken, the lock released and the
\* apply routine entered
ClaimSlot(t) ==
  /\ processing' = TRUE
  /\ pending' = FALSE
  /\ last_run_time' = now
  /\ timer' = NoTimer
  /\ next_run_time' = NoTime
  /\ lock' = NoThread
  /\ pc' = [pc EXCEPT ![t] = "apply"]
  /\ UNCHANGED <<delay, exc, delivered>>
  /\ KeepEnv /\ KeepTimers
  /\ runsSinceEv' = runsSinceEv + 1
  /\ win' = IF win.open THEN [win EXCEPT !.runs = win.runs + 1] ELSE win
  /\ runlog' = [prevStart |-> IF last_run_time > 0 THEN last_run_time ELSE NoTime,
                prevDone |-> runlog.lastDone,
                lastDone |-> NoTime]
  /\ UNCHANGED <<lastEv, stopAt, stopSeen, early, lastPath>>
  /\ UNCHANGED history

\* ProcessClaim without the test of _processing
ProcessClaimNoBusyCheck(t) ==
  /\ pc[t] = "pp_cs"
  /\ pending
  /\ interval > 0 => now >= WindowFor(next_run_time, last_run_time, now, interval)
  /\ ClaimSlot(t)

\* ProcessClaim without the test of the window
ProcessClaimNoWindowCheck(t) ==
  /\ pc[t] = "pp_cs"
  /\ ~processing /\ pending
  /\ ClaimSlot(t)

\* lines 81-107: a change is pending, no run is in progress and the window
\* has ended: claim the processing slot
ProcessClaim(t) ==
  /\ pc[t] = "pp_cs"
  /\ ~processing /\ pending
  /\ interval > 0 => now >= WindowFor(next_run_time, last_run_time, now, interval)
  /\ ClaimSlot(t)

\* lines 109-121: the apply routine, outside the lock; it returns or raises
Apply(t, raises) ==
  /\ pc[t] = "apply"
  /\ pc' = [pc EXCEPT ![t] = "fin_lock"]
  /\ exc' = [exc EXCEPT ![t] = raises]
  /\ KeepSched /\ KeepEnv /\ KeepTimers /\ UNCHANGED <<lock, delay, delivered>>
  /\ runlog' = [runlog EXCEPT !.lastDone = now]
  /\ UNCHANGED <<lastEv, runsSinceEv, win, stopAt, stopSeen, early, lastPath>>
  /\ UNCHANGED history

\* ProcessFinally as plain code after the try: a run that raised leaves with
\* _processing still set and schedules nothing
ProcessFinallySkipsOnError(t) ==
  /\ pc[t] = "fin_lock"
  /\ lock = NoThread
  /\ processing' = IF exc[t] THEN processing ELSE FALSE
  /\ IF stop \/ exc[t]
       THEN /\ Return(t)
            /\ UNCHANGED <<next_run_time, lock>>
       ELSE IF pending
         THEN /\ next_run_time' =
                   IF interval > 0 THEN last_run_time + interval ELSE next_run_time
              /\ delay' = [delay EXCEPT ![t] =
                   IF interval > 0 THEN Max(0, next_run_time' - now) ELSE 0]
              /\ lock' = t
              /\ pc' = [pc EXCEPT ![t] = "sched_stop"]
              /\ UNCHANGED exc
         ELSE /\ Return(t)
              /\ UNCHANGED <<next_run_time, lock>>
  /\ UNCHANGED <<pending, timer, last_run_time, delivered>>
  /\ KeepEnv /\ KeepTimers
  /\ SawStop("finally")
  /\ win' = NoWindow
  /\ UNCHANGED <<lastEv, runsSinceEv, runlog, stopAt, early, lastPath>>
  /\ UNCHANGED history

\* lines 122-134: the finally block
ProcessFinally(t) ==
  /\ pc[t] = "fin_lock"
  /\ lock = NoThread
  /\ processing' = FALSE
  /\ IF stop
       THEN \* line 126: return inside finally
            /\ Return(t)
            /\ UNCHANGED <<next_run_time, lock>>
       ELSE IF pending
         THEN /\ next_run_time' =
                   IF interval > 0 THEN last_run_time + interval ELSE next_run_time
              /\ delay' = [delay EXCEPT ![t] =
                   IF interval > 0 THEN Max(0, next_run_time' - now) ELSE 0]
              /\ lock' = t
              /\ pc' = [pc EXCEPT ![t] = "sched_stop"]
              /\ UNCHANGED exc
         ELSE /\ Return(t)
              /\ UNCHANGED <<next_run_time, lock>>
  /\ UNCHANGED <<pending, timer, last_run_time, delivered>>
  /\ KeepEnv /\ KeepTimers
  /\ SawStop("finally")
  /\ win' = NoWindow
  /\ UNCHANGED <<lastEv, runsSinceEv, runlog, stopAt, early, lastPath>>
  /\ UNCHANGED history

\* ---- the timer threads (threading.Timer made at watcher.py:65) ---------

\* the callback of timer s is called: its thread enters _process_pending
Fire(s) ==
  /\ s \in TimerIds
  /\ pc[s] = "armed"
  /\ pc' = [pc EXCEPT ![s] = "pp_lock"]
  /\ delay' = [delay EXCEPT ![s] = 0]
  /\ due' = [due EXCEPT ![s] = 0]
  /\ KeepSched /\ KeepEnv /\ UNCHANGED <<lock, exc, delivered>>
  /\ win' = IF ~win.open THEN win
            ELSE IF now >= win.deadline THEN [win EXCEPT !.fired = TRUE]
            ELSE NoWindow
  /\ UNCHANGED <<lastEv, runsSinceEv, runlog, stopAt, stopSeen, lastPath>>
  /\ UNCHANGED history

\* the timer's wait of delay_seconds ends by the handler's clock
TimerFire(s) ==
  /\ s \in TimerIds
  /\ now >= due[s]
  /\ Fire(s)
  /\ UNCHANGED early

\* the callback runs before the window ends by the handler's clock: the
\* timer waits on its own clock, and timer_factory (watcher.py:30) may be any
\* scheduler, as in the test that calls the callback itself
TimerFireEarly(s) ==
  /\ s \in TimerIds
  /\ now < due[s]
  /\ Fire(s)
  /\ early' = TRUE

\* the callback has returned and the thread ends: is_alive() turns false
TimerExit(s) ==
  /\ s \in TimerIds
  /\ pc[s] = "returned"
  /\ pc' = [pc EXCEPT ![s] = "dead"]
  /\ KeepSched /\ KeepEnv /\ KeepTimers /\ UNCHANGED <<lock, delay, exc, delivered>>
  /\ UNCHANGED hist
  /\ UNCHANGED history

\* ---- the environment ---------------------------------------------------

\* the clock advances (where its value is compared: with an interval)
Tick ==
  /\ interval > 0
  /\ now < MaxTime
  /\ now' = now + 1
  /\ UNCHANGED <<interval, stop, pending, processing, timer, last_run_time,
                 next_run_time, lock, pc, delay, exc, due, delivered>>
  /\ UNCHANGED hist
  /\ UNCHANGED history

\* cli.py:296-300: the signal handler sets the stop flag
Stop ==
  /\ ~stop
  /\ stop' = TRUE
  /\ UNCHANGED <<now, interval, pending, processing, timer, last_run_time,
                 next_run_time, lock, pc, delay, exc, due, delivered>>
  /\ stopAt' = [holder |-> lock, at |-> IF lock = NoThread THEN "none" ELSE pc[lock]]
  /\ win' = NoWindow
  /\ UNCHANGED <<lastEv, runsSinceEv, runlog, stopSeen, early, lastPath>>
  /\ UNCHANGED history

Next ==
  \/ \E e \in EventThreads, path \in EventPaths : OnAnyEventDiscard(e, path)
  \/ \E e \in EventThreads, path \in EventPaths : OnAnyEventAccept(e, path)
  \/ \E e \in EventThreads : OnAnyEventLocked(e)
  \/ \E t \in Threads : ScheduleStopCheck(t)
  \/ \E t \in Threads : ScheduleKeep(t)
  \/ \E t \in Threads, s \in TimerIds : ScheduleArm(t, s)
  \/ \E t \in Threads : ProcessLock(t)
  \/ \E t \in Threads : ProcessBusy(t)
  \/ \E t \in Threads : ProcessNothing(t)
  \/ \E t \in Threads : ProcessEarly(t)
  \/ \E t \in Threads : ProcessClaim(t)
  \/ \E t \in Threads, raises \in BOOLEAN : Apply(t, raises)
  \/ \E t \in Threads : ProcessFinally(t)
  \/ \E s \in TimerIds : TimerFire(s)
  \/ \E s \in TimerIds : TimerFireEarly(s)
  \/ \E s \in TimerIds : TimerExit(s)
  \/ Tick
  \/ Stop

Spec == Init /\ [][Next]_vars

\* ==== the history commands (git/history.py, cli.py) =====================

\* ---- strings, as far as the code looks at them --------------------------

\* a string: whether whitespace surrounds it, and the words strip() leaves
Text(pad, words) == [pad |-> pad, words |-> words]

\* the empty string, also what `x.get(key) or ""` gives for a missing key
NoText == Text(FALSE, <<>>)

\* str.strip
strip(s) == [s EXCEPT !.pad = FALSE]

\* the truth value Python gives a string: only "" is false
truthy(s) == s.pad \/ s.words # <<>>

\* the title _commit_tree falls back on in the squash path (history.py:179-180)
DefaultTitle == Text(FALSE, <<"Rewrite commits">>)

\* ---- the inputs ---------------------------------------------------------

\* the ways the i-th entry of a plan can be written
EntryKinds == {"full", "padded", "empty_title", "blank_title"}

\* the i-th entry of a plan, of the given kind: a title and a description, a
\* title in whitespace with a description of whitespace only, or no usable
\* title
Entry(i, kind) ==
  [title |->
     CASE kind = "empty_title" -> NoText
       [] kind = "blank_title" -> Text(TRUE, <<>>)
       [] kind = "padded" -> Text(TRUE, <<"title", i>>)
       [] OTHER -> Text(FALSE, <<"title", i>>),
   description |->
     CASE kind \in {"empty_title", "blank_title"} -> NoText
       [] kind = "padded" -> Text(TRUE, <<>>)
       [] OTHER -> Text(FALSE, <<"description", i>>)]

\* the rewrittenCommits lists explored: up to MaxPlan entries, at most one of
\* them not of the full kind
RewrittenLists ==
  UNION {{[i \in 1..n |-> Entry(i, IF i = j THEN kind ELSE "full")] :
            j \in 0..n, kind \in EntryKinds} : n \in 0..MaxPlan}

\* the mergeStrategy values explored, one of them not yet normalised
Strategies == {"squash", "drop", "reorder", "split", " Squash "}

\* history.py:139: (plan.get("mergeStrategy") or "").strip().lower()
merge_strategy(p) ==
  IF p.mergeStrategy = " Squash " THEN "squash" ELSE p.mergeStrategy

Plans == [mergeStrategy : Strategies, rewrittenCommits : RewrittenLists]

NoPlan == [mergeStrategy |-> "", rewrittenCommits |-> <<>>]

\* the i-th amendment the oracle returns for the commit sha
Amendment(i, sha, padded) ==
  [sha |-> sha,
   subject |-> Text(padded, <<"title", i>>),
   body |-> Text(padded, <<"description", i>>)]

\* ---- the repository -----------------------------------------------------

\* the branch at the start: n commits on the first-parent line, the oldest a
\* root commit; commit m, if m > 0, is a merge whose second parent is the tip
\* of a side branch, stored as object n + 1
InitialObjects(n, m) ==
  [i \in 1..(IF m = 0 THEN n ELSE n + 1) |->
     IF i <= n
       THEN [tree |-> i,
             parents |-> IF i = 1 THEN <<>>
                         ELSE IF i = m THEN <<i - 1, n + 1>> ELSE <<i - 1>>,
             title |-> <<"old", i>>,
             body |-> <<>>]
       ELSE [tree |-> i, parents |-> <<>>, title |-> <<"side">>, body |-> <<>>]]

\* git show -s --format=%P: the first parent of c, NoCommit for a root commit
\* (history.py:145-147)
FirstParent(c) ==
  IF objs[c].parents = <<>> THEN NoCommit ELSE objs[c].parents[1]

\* the first-parent line that ends in c, oldest first (git log --reverse
\* --first-parent)
RECURSIVE FirstParentLine(_)
FirstParentLine(c) ==
  IF c = NoCommit THEN <<>> ELSE Append(FirstParentLine(FirstParent(c)), c)

\* every commit reachable from c through any parent
RECURSIVE Reachable(_)
Reachable(c) ==
  IF c = NoCommit THEN {}
  ELSE {c} \cup UNION {Reachable(objs[c].parents[i]) : i \in 1..Len(objs[c].parents)}

\* the commits of  x..y  on the first-parent line of y, oldest first; a side
\* left empty stands for HEAD
RevRange(x, y) ==
  LET from == IF x = NoCommit THEN head ELSE x
      to == IF y = NoCommit THEN head ELSE y
  IN SelectSeq(FirstParentLine(to), LAMBDA c : c \notin Reachable(from))

\* the last n commits of the first-parent line of HEAD (git log -n)
LastCommits(n) ==
  LET line == FirstParentLine(head)
  IN SubSeq(line, Max(1, Len(line) - n + 1), Len(line))

\* git rev-list --merges --first-parent x..y
Merges(x, y) ==
  LET range == RevRange(x, y)
  IN {range[i] : i \in {j \in 1..Len(range) : Len(objs[range[j]].parents) >= 2}}

\* history.py:66-120
get_commits_for_fix ==
  IF upstream # NoCommit /\ ~force THEN RevRange(upstream, head)
  ELSE LastCommits(max_count)

\* history.py:33-63
get_unpushed_commits ==
  IF upstream # NoCommit THEN RevRange(upstream, head)
  ELSE LastCommits(max_count)

\* the merge test of apply_fix_plan (history.py:150-157) and of amend_unpushed
\* (cli.py:154-163): upstream..HEAD with an upstream, else base..last, whose
\* left side is empty when the oldest commit has no parent
MergesInRange(base, last) ==
  IF upstream # NoCommit THEN Merges(upstream, head) ELSE Merges(base, last)

\* git commit-tree: the object made for a tree, a parent and two messages
\* that have been stripped (history.py:159-168, 327-333)
commit_tree(tree, parent, title, body) ==
  [tree |-> tree,
   parents |-> IF parent # NoCommit THEN <<parent>> ELSE <<>>,
   title |-> strip(title).words,
   body |-> IF truthy(body) /\ strip(body).words # <<>> THEN strip(body).words
            ELSE <<>>]

\* history.py:160: `not title or not title.strip()`
EmptyTitle(title) == ~truthy(title) \/ ~truthy(strip(title))

\* git status --porcelain prints something
Dirty == worktree.uncommitted # "none"

\* ---- steps shared by the commands ----------------------------------------

KeepRepo == UNCHANGED repository

KeepInputs == UNCHANGED <<command, force, max_count, allow_dirty, dry_run, commit_list>>

KeepCall == UNCHANGED callHistory

KeepWatcher == UNCHANGED watcher

KeepBatch == UNCHANGED batch

\* the command ends with a result or an error
Finish(result) ==
  /\ hpc' = "done"
  /\ outcome' = result

\* git reset --hard target: the branch pointer, the index and the tracked
\* files follow the target; untracked files stay
ResetHard(target) ==
  /\ head' = target
  /\ worktree' = [tree |-> objs[target].tree,
                  uncommitted |-> IF worktree.uncommitted = "untracked"
                                    THEN "untracked" ELSE "none"]
  /\ moves' = moves + 1
  /\ UNCHANGED <<objs, upstream, head0, objs0, worktree0, firstOutcome>>

\* ---- the fix command (cli.py:194-233) ------------------------------------

\* cli.py:198-201: read the range; nothing to do for an empty one
FixGetCommits ==
  /\ command = "fix" /\ hpc = "cli"
  /\ commits' = get_commits_for_fix
  /\ IF commits' = <<>>
       THEN Finish("no_commits")
       ELSE hpc' = "ask" /\ UNCHANGED outcome
  /\ UNCHANGED <<plan, amendments, base_parent, last_new, k>>
  /\ KeepInputs /\ KeepRepo /\ KeepCall /\ KeepWatcher /\ KeepBatch

\* cli.py:216-225: the oracle returns a plan, or raises and the command ends
FixAsk(p, raises) ==
  /\ command = "fix" /\ hpc = "ask"
  /\ IF raises
       THEN Finish("no_plan") /\ UNCHANGED plan
       ELSE plan' = p /\ hpc' = "status" /\ UNCHANGED outcome
  /\ UNCHANGED <<commits, amendments, base_parent, last_new, k>>
  /\ KeepInputs /\ KeepRepo /\ KeepCall /\ KeepWatcher /\ KeepBatch

\* ---- apply_fix_plan (history.py:123-206) ---------------------------------
\* a git command that fails makes `run` raise; it has changed nothing then.
\* Failure is followed for the commands that write: commit-tree and reset.

\* FixStatus that lets a working tree with uncommitted changes through
FixStatusAnyTree ==
  /\ command = "fix" /\ hpc = "status"
  /\ IF commits = <<>> THEN Finish("noop")
     ELSE hpc' = "merges" /\ UNCHANGED outcome
  /\ UNCHANGED <<commits, plan, amendments, base_parent, last_new, k>>
  /\ KeepInputs /\ KeepRepo /\ KeepCall /\ KeepWatcher /\ KeepBatch

\* lines 134-142: the working tree must be clean
FixStatus ==
  /\ command = "fix" /\ hpc = "status"
  /\ IF Dirty THEN Finish("dirty")
     ELSE IF commits = <<>> THEN Finish("noop")
     ELSE hpc' = "merges" /\ UNCHANGED outcome
  /\ UNCHANGED <<commits, plan, amendments, base_parent, last_new, k>>
  /\ KeepInputs /\ KeepRepo /\ KeepCall /\ KeepWatcher /\ KeepBatch

\* lines 144-157: the base parent, and the refusal of merges
FixMerges ==
  /\ command = "fix" /\ hpc = "merges"
  /\ base_parent' = FirstParent(commits[1])
  /\ IF MergesInRange(base_parent', commits[Len(commits)]) # {}
       THEN Finish("merges")
       ELSE hpc' = "rules" /\ UNCHANGED outcome
  /\ UNCHANGED <<commits, plan, amendments, last_new, k>>
  /\ KeepInputs /\ KeepRepo /\ KeepCall /\ KeepWatcher /\ KeepBatch

\* line 171
DropRule == merge_strategy(plan) = "drop" /\ plan.rewrittenCommits = <<>>

\* line 178
SquashRule == merge_strategy(plan) = "squash" \/ Len(plan.rewrittenCommits) = 1

\* line 188
CountMismatch == Len(plan.rewrittenCommits) # Len(commits)

\* FixDrop that resets although the range has no parent
FixDropNoParentTest(fails) ==
  /\ command = "fix" /\ hpc = "rules"
  /\ DropRule
  /\ IF fails \/ base_parent = NoCommit
       THEN UNCHANGED <<repository, callHistory>> /\ Finish("dropped")
       ELSE ResetHard(base_parent) /\ Finish("dropped")
  /\ UNCHANGED <<commits, plan, amendments, base_parent, last_new, k>>
  /\ KeepInputs /\ KeepWatcher /\ KeepBatch

\* lines 170-175: the drop rule
FixDrop(fails) ==
  /\ command = "fix" /\ hpc = "rules"
  /\ DropRule
  /\ IF base_parent = NoCommit
       THEN UNCHANGED <<repository, callHistory>> /\ Finish("no_parent")
     ELSE IF fails
       THEN UNCHANGED <<repository, callHistory>> /\ Finish("git_failed")
     ELSE ResetHard(base_parent) /\ Finish("dropped")
  /\ UNCHANGED <<commits, plan, amendments, base_parent, last_new, k>>
  /\ KeepInputs /\ KeepWatcher /\ KeepBatch

\* the commit made by the squash rule (lines 179-183)
SquashCommit ==
  LET rewritten == plan.rewrittenCommits
      entry == IF rewritten # <<>> THEN rewritten[1]
               ELSE [title |-> DefaultTitle, description |-> NoText]
      title == IF truthy(entry.title) THEN entry.title ELSE DefaultTitle
  IN [empty |-> EmptyTitle(title),
      object |-> commit_tree(objs[head].tree, base_parent, title, entry.description)]

\* FixSquash that takes the tree of the oldest commit of the range
FixSquashOldestTree(fails) ==
  /\ command = "fix" /\ hpc = "rules"
  /\ ~DropRule /\ SquashRule
  /\ IF fails
       THEN Finish("git_failed") /\ UNCHANGED <<objs, last_new>>
     ELSE IF SquashCommit.empty
       THEN Finish("empty_title") /\ UNCHANGED <<objs, last_new>>
     ELSE /\ objs' = Append(objs, [SquashCommit.object EXCEPT
                                     !.tree = objs[commits[1]].tree])
          /\ last_new' = Len(objs) + 1
          /\ hpc' = "squash_reset" /\ UNCHANGED outcome
  /\ UNCHANGED <<head, upstream, worktree>>
  /\ UNCHANGED <<commits, plan, amendments, base_parent, k>>
  /\ KeepInputs /\ KeepCall /\ KeepWatcher /\ KeepBatch

\* lines 177-183: the squash rule makes its one commit from the tree of HEAD
FixSquash(fails) ==
  /\ command = "fix" /\ hpc = "rules"
  /\ ~DropRule /\ SquashRule
  /\ IF fails
       THEN Finish("git_failed") /\ UNCHANGED <<objs, last_new>>
     ELSE IF SquashCommit.empty
       THEN Finish("empty_title") /\ UNCHANGED <<objs, last_new>>
     ELSE /\ objs' = Append(objs, SquashCommit.object)
          /\ last_new' = Len(objs) + 1
          /\ hpc' = "squash_reset" /\ UNCHANGED outcome
  /\ UNCHANGED <<head, upstream, worktree>>
  /\ UNCHANGED <<commits, plan, amendments, base_parent, k>>
  /\ KeepInputs /\ KeepCall /\ KeepWatcher /\ KeepBatch

\* lines 184-185: the branch is reset to the squashed commit
FixSquashReset(fails) ==
  /\ command = "fix" /\ hpc = "squash_reset"
  /\ IF fails
       THEN UNCHANGED <<repository, callHistory>> /\ Finish("git_failed")
       ELSE ResetHard(last_new) /\ Finish("squashed")
  /\ UNCHANGED <<commits, plan, amendments, base_parent, last_new, k>>
  /\ KeepInputs /\ KeepWatcher /\ KeepBatch

\* FixMismatch that lets a plan of fewer entries through to the rewrite
FixMismatchShortPlan ==
  /\ command = "fix" /\ hpc = "rules"
  /\ ~DropRule /\ ~SquashRule
  /\ Len(plan.rewrittenCommits) < Len(commits)
  /\ last_new' = base_parent
  /\ k' = 1
  /\ hpc' = "rewrite" /\ UNCHANGED outcome
  /\ UNCHANGED <<commits, plan, amendments, base_parent>>
  /\ KeepInputs /\ KeepRepo /\ KeepCall /\ KeepWatcher /\ KeepBatch

\* lines 187-192: split and reorder are refused when the counts differ
FixMismatch ==
  /\ command = "fix" /\ hpc = "rules"
  /\ ~DropRule /\ ~SquashRule
  /\ CountMismatch
  /\ Finish("unsupported")
  /\ UNCHANGED <<commits, plan, amendments, base_parent, last_new, k>>
  /\ KeepInputs /\ KeepRepo /\ KeepCall /\ KeepWatcher /\ KeepBatch

\* lines 194-195: the message-only rewrite starts from the base parent
FixRewriteStart ==
  /\ command = "fix" /\ hpc = "rules"
  /\ ~DropRule /\ ~SquashRule /\ ~CountMismatch
  /\ last_new' = base_parent
  /\ k' = 1
  /\ hpc' = "rewrite" /\ UNCHANGED outcome
  /\ UNCHANGED <<commits, plan, amendments, base_parent>>
  /\ KeepInputs /\ KeepRepo /\ KeepCall /\ KeepWatcher /\ KeepBatch

\* RewriteCommit that takes the trees in reverse order for a reorder plan
RewriteCommitReordered ==
  LET entry == plan.rewrittenCommits[k]
      title == strip(entry.title)
      body == strip(entry.description)
      from == IF merge_strategy(plan) = "reorder"
                THEN commits[Len(commits) + 1 - k] ELSE commits[k]
  IN [empty |-> EmptyTitle(title),
      object |-> commit_tree(objs[from].tree, last_new, title, body)]

\* the commit the loop makes for the k-th pair (lines 197-200)
RewriteCommit ==
  LET entry == plan.rewrittenCommits[k]
      title == strip(entry.title)
      body == strip(entry.description)
  IN [empty |-> EmptyTitle(title),
      object |-> commit_tree(objs[commits[k]].tree, last_new, title, body)]

\* FixRewriteEntry that parents every new commit on the base parent
FixRewriteEntryOnBase(fails) ==
  /\ command = "fix" /\ hpc = "rewrite"
  /\ k <= Len(plan.rewrittenCommits) /\ k <= Len(commits)
  /\ IF fails
       THEN Finish("git_failed") /\ UNCHANGED <<objs, last_new, k>>
     ELSE IF RewriteCommit.empty
       THEN Finish("empty_title") /\ UNCHANGED <<objs, last_new, k>>
     ELSE /\ objs' = Append(objs, [RewriteCommit.object EXCEPT
               !.parents = IF base_parent # NoCommit THEN <<base_parent>> ELSE <<>>])
          /\ last_new' = Len(objs) + 1
          /\ k' = k + 1
          /\ UNCHANGED <<hpc, outcome>>
  /\ UNCHANGED <<head, upstream, worktree>>
  /\ UNCHANGED <<commits, plan, amendments, base_parent>>
  /\ KeepInputs /\ KeepCall /\ KeepWatcher /\ KeepBatch

\* FixRewriteEntry that resets the branch to every commit it makes
FixRewriteEntryMovesBranch(fails) ==
  /\ command = "fix" /\ hpc = "rewrite"
  /\ k <= Len(plan.rewrittenCommits) /\ k <= Len(commits)
  /\ IF fails
       THEN /\ Finish("git_failed")
            /\ UNCHANGED <<objs, head, worktree, moves, last_new, k>>
     ELSE IF RewriteCommit.empty
       THEN /\ Finish("empty_title")
            /\ UNCHANGED <<objs, head, worktree, moves, last_new, k>>
     ELSE /\ objs' = Append(objs, RewriteCommit.object)
          /\ last_new' = Len(objs) + 1
          /\ head' = Len(objs) + 1
          /\ worktree' = [worktree EXCEPT !.tree = RewriteCommit.object.tree]
          /\ moves' = moves + 1
          /\ k' = k + 1
          /\ UNCHANGED <<hpc, outcome>>
  /\ UNCHANGED <<upstream, head0, objs0, worktree0, firstOutcome>>
  /\ UNCHANGED <<commits, plan, amendments, base_parent>>
  /\ KeepInputs /\ KeepWatcher /\ KeepBatch

\* FixRewriteEntry that makes the commit whatever the title is
FixRewriteEntryAnyTitle(fails) ==
  /\ command = "fix" /\ hpc = "rewrite"
  /\ k <= Len(plan.rewrittenCommits) /\ k <= Len(commits)
  /\ IF fails
       THEN Finish("git_failed") /\ UNCHANGED <<objs, last_new, k>>
       ELSE /\ objs' = Append(objs, RewriteCommit.object)
            /\ last_new' = Len(objs) + 1
            /\ k' = k + 1
            /\ UNCHANGED <<hpc, outcome>>
  /\ UNCHANGED <<head, upstream, worktree>>
  /\ UNCHANGED <<commits, plan, amendments, base_parent>>
  /\ KeepInputs /\ KeepCall /\ KeepWatcher /\ KeepBatch

\* lines 196-200: one turn of the loop over zip(rewritten, commits)
FixRewriteEntry(fails) ==
  /\ command = "fix" /\ hpc = "rewrite"
  /\ k <= Len(plan.rewrittenCommits) /\ k <= Len(commits)
  /\ IF fails
       THEN Finish("git_failed") /\ UNCHANGED <<objs, last_new, k>>
     ELSE IF RewriteCommit.empty
       THEN Finish("empty_title") /\ UNCHANGED <<objs, last_new, k>>
     ELSE /\ objs' = Append(objs, RewriteCommit.object)
          /\ last_new' = Len(objs) + 1
          /\ k' = k + 1
          /\ UNCHANGED <<hpc, outcome>>
  /\ UNCHANGED <<head, upstream, worktree>>
  /\ UNCHANGED <<commits, plan, amendments, base_parent>>
  /\ KeepInputs /\ KeepCall /\ KeepWatcher /\ KeepBatch

\* lines 202-206: the branch is reset to the last new commit
FixRewriteReset(fails) ==
  /\ command = "fix" /\ hpc = "rewrite"
  /\ ~(k <= Len(plan.rewrittenCommits) /\ k <= Len(commits))
  /\ IF last_new = NoCommit
       THEN UNCHANGED <<repository, callHistory>> /\ Finish("no_chain")
     ELSE IF fails
       THEN UNCHANGED <<repository, callHistory>> /\ Finish("git_failed")
     ELSE ResetHard(last_new) /\ Finish("rewritten")
  /\ UNCHANGED <<commits, plan, amendments, base_parent, last_new, k>>
  /\ KeepInputs /\ KeepWatcher /\ KeepBatch

\* the errors apply_fix_plan and rewrite_commits raise
Errors == {"dirty", "merges", "no_parent", "empty_title", "unsupported",
           "no_chain", "git_failed"}

\* apply_fix_plan is called again with the same range and plan after it failed
FixAgain ==
  /\ command = "fix" /\ hpc = "done"
  /\ outcome \in Errors
  /\ firstOutcome = "none"
  /\ firstOutcome' = outcome
  /\ outcome' = "none"
  /\ hpc' = "status"
  /\ base_parent' = NoCommit /\ last_new' = NoCommit /\ k' = 0
  /\ head0' = head /\ objs0' = Len(objs) /\ worktree0' = worktree /\ moves' = 0
  /\ UNCHANGED <<commits, plan, amendments>>
  /\ KeepInputs /\ KeepRepo /\ KeepWatcher /\ KeepBatch

\* ---- the amend_unpushed command (cli.py:114-172) -------------------------

\* cli.py:122-125: read the range; nothing to do for an empty one
AmendGetCommits ==
  /\ command = "amend" /\ hpc = "cli"
  /\ commits' = get_unpushed_commits
  /\ IF commits' = <<>>
       THEN Finish("no_commits")
       ELSE hpc' = "ask" /\ UNCHANGED outcome
  /\ UNCHANGED <<plan, amendments, base_parent, last_new, k>>
  /\ KeepInputs /\ KeepRepo /\ KeepCall /\ KeepWatcher /\ KeepBatch

\* the answers the oracle can give for a range: amendments for some of its
\* commits, one each, in any order (commits.py:60-64 raises for a sha that is
\* not in the range)
Answers(range) ==
  {a \in UNION {[1..m -> {range[i] : i \in 1..Len(range)}] : m \in 0..Len(range)} :
     \A i, j \in DOMAIN a : a[i] = a[j] => i = j}

\* the list ask_openai_for_amendments returns (commits.py:43-66): its j-th
\* entry is the amendment of the commit returned[j]
OracleAmendments(returned, padded) ==
  [j \in DOMAIN returned |-> Amendment(j, returned[j], padded)]

\* cli.py:131: amend_map = {a["sha"]: a for a in amendments}, where a later
\* entry replaces an earlier one of the same sha
amend_map(list, sha) ==
  list[CHOOSE j \in DOMAIN list :
         /\ list[j].sha = sha
         /\ \A l \in DOMAIN list : list[l].sha = sha => l <= j]

\* cli.py:132-135: the amendments looked up commit by commit, oldest first
amendments_sorted(list) ==
  [i \in 1..Len(commits) |-> amend_map(list, commits[i])]

\* the call with the loop of cli.py:132-140 replaced by the oracle's own list
AmendAskOracleOrder(returned, padded) ==
  /\ command = "amend" /\ hpc = "ask"
  /\ returned \in Answers(commits)
  /\ IF \E i \in 1..Len(commits) : \A j \in DOMAIN returned : returned[j] # commits[i]
       THEN Finish("aborted") /\ UNCHANGED amendments
       ELSE /\ amendments' = OracleAmendments(returned, padded)
            /\ IF dry_run THEN Finish("dry_run")
               ELSE hpc' = "merges" /\ UNCHANGED outcome
  /\ UNCHANGED <<commits, plan, base_parent, last_new, k>>
  /\ KeepInputs /\ KeepRepo /\ KeepCall /\ KeepWatcher /\ KeepBatch

\* cli.py:129-151: the oracle answers with the list `returned`; its entries
\* are put in the order of the range, and a commit without one aborts; they
\* are printed, and with --dry-run the command ends here
AmendAsk(returned, padded) ==
  /\ command = "amend" /\ hpc = "ask"
  /\ returned \in Answers(commits)
  /\ IF \E i \in 1..Len(commits) : \A j \in DOMAIN returned : returned[j] # commits[i]
       THEN Finish("aborted") /\ UNCHANGED amendments
       ELSE /\ amendments' = amendments_sorted(OracleAmendments(returned, padded))
            /\ IF dry_run THEN Finish("dry_run")
               ELSE hpc' = "merges" /\ UNCHANGED outcome
  /\ UNCHANGED <<commits, plan, base_parent, last_new, k>>
  /\ KeepInputs /\ KeepRepo /\ KeepCall /\ KeepWatcher /\ KeepBatch

\* cli.py:153-165: the refusal of merges
AmendMerges ==
  /\ command = "amend" /\ hpc = "merges"
  /\ IF MergesInRange(FirstParent(commits[1]), commits[Len(commits)]) # {}
       THEN Finish("merges")
     ELSE hpc' = "status" /\ UNCHANGED outcome
  /\ UNCHANGED <<commits, plan, amendments, base_parent, last_new, k>>
  /\ KeepInputs /\ KeepRepo /\ KeepCall /\ KeepWatcher /\ KeepBatch

\* ---- rewrite_commits (history.py:297-340) --------------------------------

\* lines 308-320: the working tree must be clean unless allow_dirty; the
\* chain starts from the parent of the first amended commit
RewriteStatus ==
  /\ command = "amend" /\ hpc = "status"
  /\ IF Dirty /\ ~allow_dirty
       THEN Finish("dirty") /\ UNCHANGED <<base_parent, last_new, k>>
     ELSE IF amendments = <<>>
       THEN Finish("noop") /\ UNCHANGED <<base_parent, last_new, k>>
     ELSE /\ base_parent' = FirstParent(amendments[1].sha)
          /\ last_new' = base_parent'
          /\ k' = 1
          /\ hpc' = "rewrite" /\ UNCHANGED outcome
  /\ UNCHANGED <<commits, plan, amendments>>
  /\ KeepInputs /\ KeepRepo /\ KeepCall /\ KeepWatcher /\ KeepBatch

\* lines 321-334: one turn of the loop over the amendments
RewriteEntry(fails) ==
  /\ command = "amend" /\ hpc = "rewrite"
  /\ k <= Len(amendments)
  /\ IF fails
       THEN Finish("git_failed") /\ UNCHANGED <<objs, last_new, k>>
       ELSE /\ objs' = Append(objs,
                 commit_tree(objs[amendments[k].sha].tree, last_new,
                             strip(amendments[k].subject), strip(amendments[k].body)))
            /\ last_new' = Len(objs) + 1
            /\ k' = k + 1
            /\ UNCHANGED <<hpc, outcome>>
  /\ UNCHANGED <<head, upstream, worktree>>
  /\ UNCHANGED <<commits, plan, amendments, base_parent>>
  /\ KeepInputs /\ KeepCall /\ KeepWatcher /\ KeepBatch

\* lines 336-340: the branch is reset to the last new commit
RewriteReset(fails) ==
  /\ command = "amend" /\ hpc = "rewrite"
  /\ k > Len(amendments)
  /\ IF last_new = NoCommit
       THEN UNCHANGED <<repository, callHistory>> /\ Finish("no_chain")
     ELSE IF fails
       THEN UNCHANGED <<repository, callHistory>> /\ Finish("git_failed")
     ELSE ResetHard(last_new) /\ Finish("rewritten")
  /\ UNCHANGED <<commits, plan, amendments, base_parent, last_new, k>>
  /\ KeepInputs /\ KeepWatcher /\ KeepBatch

\* ---- proposed commits and their validation (validation.py, config.py) ----

\* a value of a proposed commit as Python has it after json.loads: its type
\* and its pieces (the characters of a string, the items of a list)
Py(type, pieces) == [py |-> type, v |-> pieces]

Str(pieces) == Py("str", pieces)

List(items) == Py("list", items)

None == Py("none", <<>>)

\* a key the proposal does not have
Missing == Py("missing", <<>>)

\* dict.get(key, default)
get(value, default) == IF value = Missing THEN default ELSE value

\* the truth value Python gives a value
Truthy(value) == value.py \notin {"none", "missing"} /\ value.v # <<>>

\* config.py:7-9
COMMIT_TYPES == {"feat", "fix", "docs", "style", "refactor", "perf", "test",
                 "build", "ci", "chore", "revert"}

\* the characters str.strip removes, of the characters the titles are made of
Whitespace == {" ", "\n"}

\* `not title.strip()`
Blank(pieces) == \A i \in 1..Len(pieces) : pieces[i] \in Whitespace

\* validation.py:29: f"{ctype}: {title}"
Subject(ctype, title) == ctype.v \o <<":", " ">> \o title.v

\* config.py:11-13, COMMIT_SUBJECT_RE.match: a type, an optional scope in
\* brackets, ": " and then `.+$`: one character or more, none of them a line
\* break, up to the end of the string or up to a line break that ends it
COMMIT_SUBJECT_RE(s) ==
  \E from \in 2..3 :
    /\ Len(s) > from + 1
    /\ s[1] \in COMMIT_TYPES
    /\ from = 3 => s[2] = "(scope)"
    /\ s[from] = ":" /\ s[from + 1] = " "
    /\ \A i \in (from + 2)..(Len(s) - 1) : s[i] # "\n"
    /\ s[from + 2] # "\n"

Raises(error) == [raised |-> error, subject |-> <<>>]

Returns(value) == [raised |-> "none", subject |-> value]

\* lint_commit_dict without the test of the subject against the pattern
lint_commit_dict_no_pattern(commit) ==
  LET ctype == get(commit.type, None)
      title == get(commit.title, Str(<<>>))
      body == get(commit.body, Str(<<>>))
      files == get(commit.files, List(<<>>))
  IN IF ctype.py \in {"list", "dict"} THEN Raises("TypeError")
     ELSE IF ~(ctype.py = "str" /\ Len(ctype.v) = 1 /\ ctype.v[1] \in COMMIT_TYPES)
       THEN Raises("ValueError")
     ELSE IF title.py # "str" \/ Blank(title.v) THEN Raises("ValueError")
     ELSE IF Len(title.v) > TitleLimit THEN Raises("ValueError")
     ELSE IF files.py # "list" \/ files.v = <<>> THEN Raises("ValueError")
     ELSE IF body.py \notin {"none", "str"} THEN Raises("ValueError")
     ELSE Returns(Subject(ctype, title))

\* validation.py:6-36.  `ctype not in COMMIT_TYPES` hashes ctype, which raises
\* TypeError for a list or a dict
lint_commit_dict(commit) ==
  LET ctype == get(commit.type, None)
      title == get(commit.title, Str(<<>>))
      body == get(commit.body, Str(<<>>))
      files == get(commit.files, List(<<>>))
  IN IF ctype.py \in {"list", "dict"} THEN Raises("TypeError")
     ELSE IF ~(ctype.py = "str" /\ Len(ctype.v) = 1 /\ ctype.v[1] \in COMMIT_TYPES)
       THEN Raises("ValueError")
     ELSE IF title.py # "str" \/ Blank(title.v) THEN Raises("ValueError")
     ELSE IF Len(title.v) > TitleLimit THEN Raises("ValueError")
     ELSE IF files.py # "list" \/ files.v = <<>> THEN Raises("ValueError")
     ELSE IF ~COMMIT_SUBJECT_RE(Subject(ctype, title)) THEN Raises("ValueError")
     ELSE IF body.py \notin {"none", "str"} THEN Raises("ValueError")
     ELSE Returns(Subject(ctype, title))

\* ---- the inputs of lint_commit_dict ---------------------------------------

\* n times the character "a"
Fill(n) == [i \in 1..n |-> "a"]

\* the strings of up to MaxText characters
RECURSIVE Texts(_)
Texts(n) ==
  IF n = 0 THEN {<<>>}
  ELSE Texts(n - 1) \cup
       {Append(t, c) : t \in {u \in Texts(n - 1) : Len(u) = n - 1},
                       c \in {"a", " ", "\n"}}

\* the titles: the short strings, and strings about as long as the limit
TitleValues ==
  {Str(t) : t \in Texts(MaxText)} \cup
  {Str(Fill(TitleLimit - 1) \o t) : t \in Texts(2)} \cup
  {None, Missing, List(<<"a">>)}

TypeValues ==
  {Str(<<"feat">>), Str(<<"revert">>), Str(<<"oops">>), Str(<<>>),
   None, Missing, List(<<"feat">>)}

BodyValues == {Str(<<"b">>), Str(<<>>), None, Missing, List(<<"b">>)}

FilesValues ==
  {List(<<"a.py">>), List(<<"a.py", "gone.py">>), List(<<>>), Str(<<"a.py">>),
   None, Missing}

ProposedCommits ==
  [type : TypeValues, title : TitleValues, body : BodyValues, files : FilesValues]

\* ---- the commit command (cli.py:69-111) -----------------------------------

\* the proposed commits the lists are made of: a valid one, one of a type
\* that is not accepted, one with a title of two lines, one without files and
\* one whose only file is neither on disk nor tracked
ProposalKinds == {"valid", "bad_type", "two_lines", "no_files", "gone"}

Proposal(kind) ==
  [type |-> IF kind = "bad_type" THEN Str(<<"oops">>) ELSE Str(<<"feat">>),
   title |-> IF kind = "two_lines" THEN Str(<<"a", "\n", "b">>) ELSE Str(<<"a">>),
   body |-> IF kind = "valid" THEN Str(<<"b">>) ELSE Missing,
   files |-> CASE kind = "no_files" -> List(<<>>)
               [] kind = "gone" -> List(<<"gone.py">>)
               [] OTHER -> List(<<"a.py">>)]

\* the lists of up to MaxProposals proposed commits
ProposalLists ==
  UNION {[1..n -> {Proposal(kind) : kind \in ProposalKinds}] : n \in 0..MaxProposals}

\* ai/commits.py:37-38: the error of the first proposal lint_commit_dict
\* refuses, "none" when all pass
RECURSIVE FirstLintError(_, _)
FirstLintError(list, i) ==
  IF i > Len(list) THEN "none"
  ELSE IF lint_commit_dict(list[i]).raised # "none"
    THEN lint_commit_dict(list[i]).raised
  ELSE FirstLintError(list, i + 1)

\* CommitAsk that applies the commits with --dry-run as well
CommitAskNoDryRun(found) ==
  /\ command = "commit" /\ hpc = "cli"
  /\ worktree.uncommitted = "none" => ~found
  /\ worktree.uncommitted = "tracked" => found
  /\ IF ~found THEN Finish("no_files") /\ UNCHANGED k
     ELSE IF FirstLintError(commit_list, 1) # "none"
       THEN Finish(FirstLintError(commit_list, 1)) /\ UNCHANGED k
     ELSE hpc' = "loop" /\ k' = 1 /\ UNCHANGED outcome
  /\ UNCHANGED <<commits, plan, amendments, base_parent, last_new>>
  /\ KeepInputs /\ KeepRepo /\ KeepCall /\ KeepWatcher /\ KeepBatch

\* cli.py:78-111: nothing to do without changed files (untracked files count
\* with --untracked only); the oracle returns commit_list after
\* lint_commit_dict has passed every proposal, else it raises; the list is
\* printed, and with --dry-run the command ends here
CommitAsk(found) ==
  /\ command = "commit" /\ hpc = "cli"
  /\ worktree.uncommitted = "none" => ~found
  /\ worktree.uncommitted = "tracked" => found
  /\ IF ~found THEN Finish("no_files") /\ UNCHANGED k
     ELSE IF FirstLintError(commit_list, 1) # "none"
       THEN Finish(FirstLintError(commit_list, 1)) /\ UNCHANGED k
     ELSE IF dry_run THEN Finish("dry_run") /\ UNCHANGED k
     ELSE hpc' = "loop" /\ k' = 1 /\ UNCHANGED outcome
  /\ UNCHANGED <<commits, plan, amendments, base_parent, last_new>>
  /\ KeepInputs /\ KeepRepo /\ KeepCall /\ KeepWatcher /\ KeepBatch

\* ---- apply_commits (history.py:209-294) -----------------------------------

\* lines 230-234: os.path.exists(f) or is_tracked(f)
Stageable(f) == f # "gone.py"

\* lines 227-236: stage_targets
stage_targets(files) == SelectSeq(files.v, Stageable)

\* the callers of apply_commits: the commit command, the watcher's apply
\* routine, and any other caller of the package
Applies == command \in {"commit", "apply", "watch"}

\* the changes git has to stage for commit_list: the files of each proposal
\* stand for themselves under the proposal's index
ListedChanges ==
  {i \in 1..Len(commit_list) :
     stage_targets(get(commit_list[i].files, List(<<>>))) # <<>>}

\* the files the commits made by this call have taken out of the index
Committed == UNION {objs[i].of : i \in (objs0 + 1)..Len(objs)}

\* watcher.py:109-121, the apply routine of the watcher: git add -A stages
\* every change of the work tree, those no proposal lists (0) included;
\* without staged files it returns; the oracle returns commit_list or raises
\* on the first proposal lint_commit_dict refuses; then apply_commits
WatchApply(unlisted) ==
  /\ command = "watch" /\ hpc = "cli"
  /\ worktree.uncommitted # "none" => unlisted \/ ListedChanges # {}
  /\ staged' = IF worktree.uncommitted = "none" THEN {}
               ELSE ListedChanges \cup (IF unlisted THEN {0} ELSE {})
  /\ IF staged' = {} THEN Finish("no_files") /\ UNCHANGED k
     ELSE IF FirstLintError(commit_list, 1) # "none"
       THEN Finish(FirstLintError(commit_list, 1)) /\ UNCHANGED k
     ELSE hpc' = "loop" /\ k' = 1 /\ UNCHANGED outcome
  /\ UNCHANGED <<commits, plan, amendments, base_parent, last_new>>
  /\ UNCHANGED <<committed_subjects, subject, oplog>>
  /\ KeepInputs /\ KeepRepo /\ KeepCall /\ KeepWatcher

\* apply_commits is called with commit_list by a caller other than the commit
\* command (it is exported by the package)
ApplyCall ==
  /\ command = "apply" /\ hpc = "cli"
  /\ hpc' = "loop" /\ k' = 1 /\ UNCHANGED outcome
  /\ UNCHANGED <<commits, plan, amendments, base_parent, last_new>>
  /\ KeepInputs /\ KeepRepo /\ KeepCall /\ KeepWatcher /\ KeepBatch

\* what has been done for the proposal i, added to the log
Logged(op, i) == oplog' = Append(oplog, <<op, i>>)

\* the loop goes on with the next proposal
NextProposal == hpc' = "loop" /\ k' = k + 1 /\ UNCHANGED outcome

\* ApplyNext that stages the files of a proposal lint_commit_dict refuses
ApplyNextKeepsInvalid ==
  /\ Applies /\ hpc = "loop"
  /\ k <= Len(commit_list)
  /\ LET commit == commit_list[k]
         files == get(commit.files, List(<<>>))
     IN IF ~Truthy(files)
          THEN Logged("no_files", k) /\ NextProposal /\ UNCHANGED subject
        ELSE /\ subject' = Returns(Subject(commit.type, commit.title))
             /\ IF stage_targets(files) = <<>>
                  THEN Logged("no_targets", k) /\ NextProposal
                  ELSE Logged("lint", k) /\ hpc' = "add" /\ UNCHANGED <<k, outcome>>
  /\ UNCHANGED <<commits, plan, amendments, base_parent, last_new>>
  /\ UNCHANGED <<staged, committed_subjects>>
  /\ KeepInputs /\ KeepRepo /\ KeepCall /\ KeepWatcher

\* lines 219-249: a proposal without files is passed over; lint_commit_dict
\* gives the subject or raises, which ends apply_commits; a proposal with no
\* file to stage is passed over
ApplyNext ==
  /\ Applies /\ hpc = "loop"
  /\ k <= Len(commit_list)
  /\ LET commit == commit_list[k]
         files == get(commit.files, List(<<>>))
     IN IF ~Truthy(files)
          THEN Logged("no_files", k) /\ NextProposal /\ UNCHANGED subject
        ELSE /\ subject' = lint_commit_dict(commit)
             /\ IF subject'.raised # "none"
                  THEN Logged("raised", k) /\ Finish(subject'.raised) /\ UNCHANGED k
                ELSE IF stage_targets(files) = <<>>
                  THEN Logged("no_targets", k) /\ NextProposal
                  ELSE Logged("lint", k) /\ hpc' = "add" /\ UNCHANGED <<k, outcome>>
  /\ UNCHANGED <<commits, plan, amendments, base_parent, last_new>>
  /\ UNCHANGED <<staged, committed_subjects>>
  /\ KeepInputs /\ KeepRepo /\ KeepCall /\ KeepWatcher

\* ApplyAdd for which a failure of git add ends apply_commits
ApplyAddFatal(fails, partly) ==
  /\ Applies /\ hpc = "add"
  /\ IF fails
       THEN /\ staged' = IF partly THEN staged \cup ({k} \ Committed) ELSE staged
            /\ Logged("add_failed", k) /\ Finish("git_failed") /\ UNCHANGED k
       ELSE /\ staged' = staged \cup ({k} \ Committed)
            /\ Logged("add", k) /\ hpc' = "commit" /\ UNCHANGED <<k, outcome>>
  /\ UNCHANGED <<commits, plan, amendments, base_parent, last_new>>
  /\ UNCHANGED <<committed_subjects, subject>>
  /\ KeepInputs /\ KeepRepo /\ KeepCall /\ KeepWatcher

\* lines 251-263: git add -A of the stage targets; when it fails the proposal
\* is passed over, and git may have staged some of the files before it failed
\* (it does when another of the paths is ignored); files a commit of this
\* call has already taken have no change left to stage
ApplyAdd(fails, partly) ==
  /\ Applies /\ hpc = "add"
  /\ IF fails
       THEN /\ staged' = IF partly THEN staged \cup ({k} \ Committed) ELSE staged
            /\ Logged("add_failed", k) /\ NextProposal
       ELSE /\ staged' = staged \cup ({k} \ Committed)
            /\ Logged("add", k) /\ hpc' = "commit" /\ UNCHANGED <<k, outcome>>
  /\ UNCHANGED <<commits, plan, amendments, base_parent, last_new>>
  /\ UNCHANGED <<committed_subjects, subject>>
  /\ KeepInputs /\ KeepRepo /\ KeepCall /\ KeepWatcher

\* git commit -m subject [-m body]: the commit made of what is staged
GitCommit(commit) ==
  LET body == get(commit.body, None)
  IN [tree |-> Len(objs) + 1,
      parents |-> <<head>>,
      title |-> subject.subject,
      body |-> IF Truthy(body) /\ ~Blank(body.v) THEN body.v ELSE <<>>,
      of |-> staged]

\* lines 265-277: git commit; it fails when nothing is staged ("nothing to
\* commit", exit status 1) and may fail otherwise; when it fails what was
\* staged stays staged and the loop goes on
ApplyCommit(fails) ==
  /\ Applies /\ hpc = "commit"
  /\ staged = {} => fails
  /\ IF fails
       THEN /\ Logged(IF staged = {} THEN "nothing_to_commit" ELSE "commit_failed", k)
            /\ UNCHANGED <<repository, callHistory, staged, committed_subjects>>
       ELSE /\ objs' = Append(objs, GitCommit(commit_list[k]))
            /\ head' = Len(objs) + 1
            /\ worktree' = [worktree EXCEPT !.tree = Len(objs) + 1]
            /\ moves' = moves + 1
            /\ staged' = {}
            /\ committed_subjects' = Append(committed_subjects, subject.subject)
            /\ Logged("commit", k)
            /\ UNCHANGED <<upstream, head0, objs0, worktree0, firstOutcome>>
  /\ NextProposal
  /\ UNCHANGED <<commits, plan, amendments, base_parent, last_new, subject>>
  /\ KeepInputs /\ KeepWatcher

\* lines 279-294: after the loop the subjects committed are printed
ApplyEnd ==
  /\ Applies /\ hpc = "loop"
  /\ k > Len(commit_list)
  /\ Finish(IF committed_subjects # <<>> THEN "committed" ELSE "nothing_committed")
  /\ UNCHANGED <<commits, plan, amendments, base_parent, last_new, k>>
  /\ KeepInputs /\ KeepRepo /\ KeepCall /\ KeepWatcher /\ KeepBatch

\* ---- the specification of the history commands ---------------------------

\* the watcher is not running while a history command runs
WatcherOff ==
  /\ now = 1 /\ interval = 0 /\ stop = FALSE
  /\ pending = FALSE /\ processing = FALSE
  /\ timer = NoTimer /\ last_run_time = 0 /\ next_run_time = NoTime
  /\ lock = NoThread
  /\ pc = [t \in Threads |-> IF t \in EventThreads THEN "idle" ELSE "dead"]
  /\ delay = [t \in Threads |-> 0]
  /\ exc = [t \in Threads |-> FALSE]
  /\ due = [s \in TimerIds |-> 0]
  /\ delivered = 0
  /\ lastEv = "none" /\ runsSinceEv = 0 /\ win = NoWindow
  /\ runlog = [prevStart |-> NoTime, prevDone |-> NoTime, lastDone |-> NoTime]
  /\ stopAt = [holder |-> NoThread, at |-> "none"]
  /\ stopSeen = {} /\ early = FALSE /\ lastPath = "none"

\* a repository of 1..MaxCommits commits on the branch, with or without a
\* merge and an upstream, and a command about to start
InitHistory ==
  /\ WatcherOff
  /\ command \in {"fix", "amend", "commit", "apply", "watch"}
  /\ \E n \in 1..MaxCommits, m \in {0} \cup 2..MaxCommits :
       /\ m <= n
       /\ command \in {"commit", "apply", "watch"} => n = 1
       /\ objs = InitialObjects(n, m)
       /\ head = n
  /\ upstream \in 0..head
  /\ worktree \in [tree : {objs[head].tree},
                   uncommitted : {"none", "tracked", "untracked"}]
  /\ force \in BOOLEAN
  /\ allow_dirty \in BOOLEAN
  /\ max_count \in 1..MaxCommits
  /\ dry_run \in BOOLEAN
  /\ commit_list \in ProposalLists
  /\ command = "fix" => ~allow_dirty /\ ~dry_run /\ commit_list = <<>>
  /\ command = "amend" => ~force /\ commit_list = <<>>
  /\ command = "commit" =>
       ~force /\ ~allow_dirty /\ max_count = 1 /\ upstream = NoCommit
  /\ command = "apply" =>
       /\ ~force /\ ~allow_dirty /\ ~dry_run /\ max_count = 1 /\ upstream = NoCommit
       /\ worktree.uncommitted # "none"
  /\ command = "watch" =>
       ~force /\ ~allow_dirty /\ ~dry_run /\ max_count = 1 /\ upstream = NoCommit
  /\ staged = {} /\ committed_subjects = <<>> /\ subject = NoSubject /\ oplog = <<>>
  /\ commits = <<>> /\ plan = NoPlan /\ amendments = <<>>
  /\ hpc = "cli"
  /\ base_parent = NoCommit /\ last_new = NoCommit /\ k = 0
  /\ outcome = "none"
  /\ head0 = head /\ objs0 = Len(objs) /\ worktree0 = worktree
  /\ moves = 0 /\ firstOutcome = "none"

NextHistory ==
  \/ FixGetCommits
  \/ \E p \in Plans, raises \in BOOLEAN : FixAsk(p, raises)
  \/ FixStatus
  \/ FixMerges
  \/ \E fails \in BOOLEAN : FixDrop(fails)
  \/ \E fails \in BOOLEAN : FixSquash(fails)
  \/ \E fails \in BOOLEAN : FixSquashReset(fails)
  \/ FixMismatch
  \/ FixRewriteStart
  \/ \E fails \in BOOLEAN : FixRewriteEntry(fails)
  \/ \E fails \in BOOLEAN : FixRewriteReset(fails)
  \/ FixAgain
  \/ AmendGetCommits
  \/ /\ command = "amend" /\ hpc = "ask"
     /\ \E returned \in Answers(commits), padded \in BOOLEAN : AmendAsk(returned, padded)
  \/ AmendMerges
  \/ RewriteStatus
  \/ \E fails \in BOOLEAN : RewriteEntry(fails)
  \/ \E fails \in BOOLEAN : RewriteReset(fails)
  \/ \E found \in BOOLEAN : CommitAsk(found)
  \/ ApplyCall
  \/ \E unlisted \in BOOLEAN : WatchApply(unlisted)
  \/ ApplyNext
  \/ \E fails \in BOOLEAN, partly \in BOOLEAN : ApplyAdd(fails, partly)
  \/ \E fails \in BOOLEAN : ApplyCommit(fails)
  \/ ApplyEnd

SpecHistory == InitHistory /\ [][NextHistory]_vars

\* ---- the fix command while another process commits --------------------------

\* between reading the range (cli.py:198) and entering apply_fix_plan
\* (cli.py:225) the oracle is asked over the network; meanwhile another
\* process (the user, or the watcher of the same repository) makes a commit on
\* the branch, once.  head0, objs0 and worktree0 are the state in which
\* apply_fix_plan is entered.
OtherCommit ==
  /\ command = "fix" /\ hpc = "ask"
  /\ head = commits[Len(commits)]
  /\ objs' = Append(objs, [tree |-> Len(objs) + 1, parents |-> <<head>>,
                           title |-> <<"other">>, body |-> <<>>])
  /\ head' = Len(objs) + 1
  /\ worktree' = [worktree EXCEPT !.tree = Len(objs) + 1]
  /\ head0' = Len(objs) + 1 /\ objs0' = Len(objs) + 1 /\ worktree0' = worktree'
  /\ UNCHANGED <<upstream, moves, firstOutcome>>
  /\ UNCHANGED <<commits, plan, amendments, hpc, base_parent, last_new, k, outcome>>
  /\ KeepInputs /\ KeepWatcher /\ KeepBatch

\* the fix command in a repository with a clean working tree and no merge on
\* the branch, where apply_fix_plan gets as far as its rules
InitFixRace ==
  /\ InitHistory /\ command = "fix"
  /\ ~Dirty /\ Len(objs) = head

\* the steps of the fix command and the commit of the other process
NextFixRace ==
  \/ FixGetCommits
  \/ OtherCommit
  \/ \E p \in Plans, raises \in BOOLEAN : FixAsk(p, raises)
  \/ FixStatus
  \/ FixMerges
  \/ \E fails \in BOOLEAN : FixDrop(fails)
  \/ \E fails \in BOOLEAN : FixSquash(fails)
  \/ \E fails \in BOOLEAN : FixSquashReset(fails)
  \/ FixMismatch
  \/ FixRewriteStart
  \/ \E fails \in BOOLEAN : FixRewriteEntry(fails)
  \/ \E fails \in BOOLEAN : FixRewriteReset(fails)
  \/ FixAgain

SpecFixRace == InitFixRace /\ [][NextFixRace]_vars

\* ---- the specification of lint_commit_dict --------------------------------

\* one call of lint_commit_dict with any proposed commit
InitLint ==
  /\ WatcherOff
  /\ objs = InitialObjects(1, 0) /\ head = 1 /\ upstream = NoCommit
  /\ worktree = [tree |-> 1, uncommitted |-> "none"]
  /\ command = "lint" /\ force = FALSE /\ allow_dirty = FALSE /\ max_count = 1
  /\ dry_run = FALSE
  /\ \E c \in ProposedCommits : commit_list = <<c>>
  /\ commits = <<>> /\ plan = NoPlan /\ amendments = <<>>
  /\ hpc = "lint"
  /\ base_parent = NoCommit /\ last_new = NoCommit /\ k = 1
  /\ outcome = "none"
  /\ head0 = head /\ objs0 = Len(objs) /\ worktree0 = worktree
  /\ moves = 0 /\ firstOutcome = "none"
  /\ staged = {} /\ committed_subjects = <<>> /\ oplog = <<>>
  /\ subject = NoSubject

\* subject = lint_commit_dict(commit)
LintCall ==
  /\ command = "lint" /\ hpc = "lint"
  /\ subject' = lint_commit_dict(commit_list[k])
  /\ Finish(IF subject'.raised = "none" THEN "returned" ELSE subject'.raised)
  /\ UNCHANGED <<commits, plan, amendments, base_parent, last_new, k>>
  /\ UNCHANGED <<staged, committed_subjects, oplog>>
  /\ KeepInputs /\ KeepRepo /\ KeepCall /\ KeepWatcher

NextLint == LintCall

SpecLint == InitLint /\ [][NextLint]_vars

\* ---- properties --------------------------------------------------------

\* the threads executing the apply routine (watcher.py:110-121)
Applying == {t \in Threads : pc[t] = "apply"}

\* a step in which thread t starts an apply run
StartsRun(t) == pc[t] = "pp_cs" /\ pc'[t] = "apply"

\* a step in which timer s is armed
Arms(s) == pc[s] = "dead" /\ pc'[s] = "armed"

\* a step in which thread e marks its event pending under the lock
MarksEvent(e) == pc[e] = "ev_lock" /\ pc'[e] # "ev_lock"

\* C1: at most one execution of the apply routine is in progress at any time,
\* for every interval and every interleaving of event threads and timer callbacks
C1_AtMostOneApply == Cardinality(Applying) <= 1

\* C1 witness: a run is in progress while another thread is inside the
\* claiming section of _process_pending
C1_Witness ==
  \E t, u \in Threads : t # u /\ pc[t] = "apply" /\ pc[u] = "pp_cs"

\* C2: no accepted event is left pending with nothing scheduled to process
\* it: while the stop flag is clear, a pending event always has a run in
\* progress, a timer armed or a thread on its way to schedule or run it (here
\* even when every timer calls back on time)
C2_NoEventLeftPending == ~(pending /\ ~stop /\ ~early /\ Quiescent)

\* C3: when the latest events were delivered during an apply run (none after
\* it completed, stop not set, timers on time) and the scheduler has come to
\* rest, exactly one further run has started
C3_ExactlyOneFollowUp ==
  (lastEv = "during" /\ ~stop /\ ~early /\ Quiescent) => runsSinceEv = 1

\* C4: with interval > 0, the events that arrive before the deadline of a
\* window opened on an idle handler arm exactly one timer (its delay is the
\* interval in the first window), no run starts before that timer fires, and
\* exactly one run starts once it has fired at or after the deadline
C4_OneTimerOneRun ==
  (interval > 0 /\ win.open) =>
    /\ win.arms <= 1
    /\ win.runs <= 1
    /\ (~win.fired /\ \A e \in EventThreads : pc[e] \notin {"sched_stop", "sched_arm"})
         => win.arms = 1
    /\ ~win.fired => win.runs = 0
    /\ (win.fired /\ \A s \in TimerIds : pc[s] \notin {"pp_lock", "pp_cs"})
         => win.runs = 1
    /\ \A s \in TimerIds :
         (pc[s] = "armed" /\ last_run_time = 0) => delay[s] = interval

\* C4 witness: two or more events were coalesced into one timer, which fired
\* at the deadline and started the one run
C4_Witness ==
  /\ interval > 0 /\ win.open /\ win.events >= 2
  /\ win.arms = 1 /\ win.fired /\ win.runs = 1

\* C5: with interval > 0, once next_run_time is set it stays as it is until
\* the run of that window starts: events (and every other step) leave it alone
C5_WindowNotPostponed ==
  [][(interval > 0 /\ next_run_time # NoTime) =>
       \/ next_run_time' = next_run_time
       \/ next_run_time' = NoTime /\ \E t \in Threads : StartsRun(t)]_vars

\* C5 witness: an event was marked after the clock moved inside a window
\* whose deadline was already set, and computed a shorter delay to it
C5_Witness ==
  /\ interval > 0 /\ last_run_time = 0 /\ next_run_time # NoTime
  /\ \E e \in EventThreads :
       pc[e] \in {"sched_stop", "sched_arm"} /\ delay[e] < interval

\* C6 as stated: with interval > 0 the completions of two consecutive apply
\* runs are at least interval apart (here with timers that call back on time)
C6_CompletionsApart ==
  (interval > 0 /\ ~early /\ runlog.prevDone # NoTime /\ runlog.lastDone # NoTime)
    => runlog.lastDone - runlog.prevDone >= interval

\* C6 amended: with interval > 0 the later of two consecutive apply runs
\* completes at least interval after the earlier one STARTED, however long
\* each run takes
C6_CompletionAfterStart ==
  (interval > 0 /\ runlog.prevStart # NoTime /\ runlog.lastDone # NoTime)
    => runlog.lastDone - runlog.prevStart >= interval

\* C6 witness: the earlier run took at least the interval and the follow-up
\* completed less than interval after the earlier one completed
C6_Witness ==
  /\ interval > 0 /\ runlog.prevStart # NoTime /\ runlog.lastDone # NoTime
  /\ runlog.prevDone - runlog.prevStart >= interval
  /\ runlog.lastDone - runlog.prevDone < interval

\* C7: an event that arrives with interval > 0 and next_run_time unset sets
\* next_run_time to max(now, last_run_time) + interval (here with timers
\* that call back on time)
C7_WindowFromMax ==
  [][\A e \in EventThreads :
       (MarksEvent(e) /\ ~early /\ interval > 0 /\ next_run_time = NoTime)
         => next_run_time' = Max(now, last_run_time) + interval]_vars

\* C8: while an apply run is in progress no timer is armed: an event that
\* arrives during the run only marks pending (here with timers that call
\* back on time)
C8_NoTimerArmedDuringRun ==
  [][(processing /\ ~early) => \A s \in TimerIds : ~Arms(s)]_vars

\* C9 as stated: once the stop flag is set, no apply run starts
C9_NoRunAfterStop ==
  [][stop => \A t \in Threads : ~StartsRun(t)]_vars

\* C9 amended: once the stop flag is set, no call of _process_pending that
\* reads the flag afterwards starts an apply run; only the call that was
\* already past its check, holding the lock, when the flag was set can
C9_NoRunAfterStopSeen ==
  [][stop => \A t \in Threads :
       StartsRun(t) => (stopAt.holder = t /\ stopAt.at = "pp_cs")]_vars

\* C9 witness: with an interval (only timer callbacks call _process_pending)
\* the stop flag is set, an event is pending, and a timer that fired has read
\* the flag and returned without a run
C9_Witness ==
  /\ interval > 0 /\ stop /\ pending /\ ~processing
  /\ "process" \in stopSeen

\* C10 as stated: once the stop flag is set, no new timer is armed
C10_NoTimerAfterStop ==
  [][stop => \A s \in TimerIds : ~Arms(s)]_vars

\* C10 amended: once the stop flag is set, no call of _schedule_locked that
\* reads the flag afterwards arms a timer, at the completion of a run with a
\* pending follow-up included; only the call that was already past its check
\* when the flag was set can
C10_NoTimerAfterStopSeen ==
  [][stop => \A s \in TimerIds :
       Arms(s) => (stopAt.holder # NoThread /\ stopAt.at = "sched_arm"
                   /\ pc[stopAt.holder] = "sched_arm")]_vars

\* C10 witness: a run completed with a follow-up pending after the stop flag
\* was set, and no timer is armed
C10_Witness ==
  /\ stop /\ pending /\ ~processing /\ "finally" \in stopSeen
  /\ \A s \in TimerIds : pc[s] # "armed"

\* C11: the scheduler lock is never held while the apply routine executes:
\* no thread inside the apply routine holds the lock, and whoever holds it is
\* inside one of the sections under `with self._lock`; so whenever a run is
\* in progress and the lock is free, an event that has reached line 152 is
\* marked pending at once, without waiting for the run to end.
C11_LockNotHeldInApply ==
  /\ \A t \in Threads : pc[t] \in {"apply", "fin_lock", "ev_lock", "pp_lock"} => lock # t
  /\ lock # NoThread => pc[lock] \in {"sched_stop", "sched_arm", "pp_cs"}
  /\ \A e \in EventThreads :
       (processing /\ pc[e] = "ev_lock" /\ lock = NoThread) => ENABLED OnAnyEventLocked(e)

\* C11 witness: an event was marked pending while the apply routine was
\* executing, and the routine is still executing
C11_Witness ==
  /\ lastEv = "during" /\ pending /\ processing
  /\ \E t \in Threads : pc[t] = "apply"

\* C12: with interval 0, on_any_event arms no timer for its event and goes
\* straight into _process_pending; there, with the stop flag clear and no run
\* in progress, it starts the apply routine in the calling thread.
C12_ImmediateRun ==
  [][interval = 0 =>
      \A e \in EventThreads :
        /\ MarksEvent(e) =>
             /\ pc'[e] = "pp_lock"
             /\ timer' = timer
             /\ \A s \in TimerIds : ~Arms(s)
        /\ (pc[e] = "pp_lock" /\ pc'[e] # "pp_lock" /\ ~stop) => pc'[e] = "pp_cs"
        /\ (pc[e] = "pp_cs" /\ pc'[e] # "pp_cs" /\ pending /\ ~processing) =>
             /\ pc'[e] = "apply"
             /\ processing'
             /\ \A s \in TimerIds : ~Arms(s)]_vars

\* C12 witness: with interval 0 the first event has started the apply routine
\* in its own thread, and no timer has been armed
C12_Witness ==
  /\ interval = 0 /\ delivered = 1 /\ processing
  /\ \E e \in EventThreads : pc[e] = "apply"
  /\ timer = NoTimer
  /\ \A s \in TimerIds : pc[s] = "dead"

\* a step in which on_any_event is called
Delivers == delivered' = delivered + 1

Ruled ==
  /\ command = "fix" /\ hpc = "done"
  /\ outcome \notin {"no_commits", "no_plan", "dirty", "merges"}

\* the range the command read contains a merge commit
RangeHasMerge == \E i \in 1..Len(commits) : Len(objs[commits[i]].parents) >= 2

\* the parent list of a commit made on top of the range's base parent
OnBase ==
  IF FirstParent(commits[1]) = NoCommit THEN <<>> ELSE <<FirstParent(commits[1])>>

\* the repository is as it was when the call started
Untouched == head = head0 /\ worktree = worktree0 /\ moves = 0

\* C14: during apply_fix_plan the branch pointer is set at most once, and by
\* the step that ends the call with a result, after every new commit object
\* has been made; until then, and whenever the call ends with an error, the
\* branch pointer and the working tree are as they were before the call.
C14_PointerMovedLast ==
  command = "fix" =>
    /\ moves <= 1
    /\ moves = 1 => hpc = "done" /\ outcome \in {"dropped", "squashed", "rewritten"}
    /\ moves = 0 => head = head0 /\ worktree = worktree0
    /\ outcome \in Errors => Untouched

\* C14 witness: the call failed after it had made new commit objects, and the
\* branch still points where it did
C14_Witness ==
  /\ command = "fix" /\ hpc = "done" /\ outcome \in Errors
  /\ Len(objs) >= objs0 + 2
  /\ head = head0

\* C15: a message-only rewrite of a range of N commits without merges ends
\* with exactly N new commits: the i-th has the tree of the i-th original and
\* the trimmed title and description of the i-th entry, its parent is the new
\* commit before it (the base parent of the range for the first), and the
\* branch points at the last; the same for rewrite_commits and N amendments.
C15_MessageOnlyRewrite ==
  (outcome = "rewritten" /\ ~RangeHasMerge) =>
    LET N == Len(commits)
        new(i) == objs[objs0 + i]
        title(i) == IF command = "fix" THEN plan.rewrittenCommits[i].title
                    ELSE amendments[i].subject
        body(i) == IF command = "fix" THEN plan.rewrittenCommits[i].description
                   ELSE amendments[i].body
    IN /\ Len(objs) = objs0 + N
       /\ head = objs0 + N
       /\ \A i \in 1..N :
            /\ new(i).tree = objs[commits[i]].tree
            /\ new(i).title = title(i).words /\ new(i).title # <<>>
            /\ new(i).body = body(i).words
            /\ new(i).parents = IF i = 1 THEN OnBase ELSE <<objs0 + i - 1>>

\* C15 witness: apply_fix_plan has rewritten the messages of a range of two
\* commits or more that lies on a base parent, one of the titles written in
\* whitespace
C15_Witness ==
  /\ command = "fix" /\ outcome = "rewritten" /\ ~RangeHasMerge
  /\ Len(commits) >= 2
  /\ FirstParent(commits[1]) # NoCommit
  /\ \E i \in 1..Len(commits) : plan.rewrittenCommits[i].title.pad

\* C16: when the squash rule applies the call ends squashed or with an error
\* of the one commit-tree or reset; squashed, exactly one new commit has been
\* made, its parent is the base parent of the range, its tree is the tree HEAD
\* had, and the branch points at it.
C16_SquashToOneCommit ==
  /\ (Ruled /\ SquashRule) => outcome \in {"squashed", "empty_title", "git_failed"}
  /\ (command = "fix" /\ outcome = "squashed") =>
       /\ SquashRule
       /\ Len(objs) = objs0 + 1
       /\ head = objs0 + 1
       /\ objs[head].parents = OnBase
       /\ objs[head].tree = objs[head0].tree
       /\ FirstParentLine(head) = Append(FirstParentLine(FirstParent(commits[1])), head)

\* C16 witness: a plan of one entry and strategy reorder has squashed a range
\* of three commits
C16_Witness ==
  /\ command = "fix" /\ outcome = "squashed"
  /\ Len(commits) >= 3
  /\ merge_strategy(plan) = "reorder" /\ Len(plan.rewrittenCommits) = 1

\* C17: a drop plan on a range whose oldest commit has a parent resets the
\* branch to that parent and makes no commit object; without a parent the
\* call fails with the no-parent error and changes nothing.
C17_DropToBaseParent ==
  (Ruled /\ DropRule) =>
    /\ Len(objs) = objs0
    /\ IF FirstParent(commits[1]) = NoCommit
         THEN outcome = "no_parent" /\ Untouched
         ELSE \/ outcome = "dropped" /\ head = FirstParent(commits[1]) /\ moves = 1
              \/ outcome = "git_failed" /\ Untouched

\* C17 witness: a range of two commits or more has been dropped
C17_Witness ==
  /\ command = "fix" /\ outcome = "dropped"
  /\ Len(commits) >= 2
  /\ head = FirstParent(commits[1]) /\ head # NoCommit

\* the case of C18: the counts differ, the strategy is not squash and the plan
\* does not have exactly one entry
MismatchCase ==
  /\ CountMismatch
  /\ merge_strategy(plan) # "squash"
  /\ Len(plan.rewrittenCommits) # 1

\* C18 as stated: in the mismatch case apply_fix_plan fails with the
\* unsupported-rewrite error and leaves the branch pointer unchanged.
C18_MismatchAlwaysRefused ==
  (Ruled /\ MismatchCase) => outcome = "unsupported" /\ head = head0

\* C18 amended: in the mismatch case, unless the plan is a drop plan (strategy
\* drop and no entries, which the drop rule takes first), apply_fix_plan
\* fails with the unsupported-rewrite error, makes no commit object and
\* leaves the branch pointer unchanged; repeated, it fails the same way.
C18_MismatchRefusedUnlessDrop ==
  /\ (Ruled /\ MismatchCase /\ ~DropRule) =>
       outcome = "unsupported" /\ Untouched /\ Len(objs) = objs0
  /\ (command = "fix" /\ firstOutcome = "unsupported" /\ hpc = "done") =>
       outcome = "unsupported" /\ Untouched /\ Len(objs) = objs0

\* C18 witness: a plan with more entries than the range has commits was
\* refused twice
C18_Witness ==
  /\ command = "fix" /\ hpc = "done"
  /\ firstOutcome = "unsupported" /\ outcome = "unsupported"
  /\ Len(plan.rewrittenCommits) > Len(commits)

\* C19: when the range given to apply_fix_plan contains a merge commit (and
\* the working tree is clean) the call makes no commit object, does not move
\* the branch pointer and ends with the unsupported-history error.
C19_MergeRangeRefused ==
  (command = "fix" /\ RangeHasMerge /\ worktree0.uncommitted = "none") =>
    /\ Len(objs) = objs0
    /\ head = head0
    /\ (hpc = "done" /\ plan # NoPlan) => outcome = "merges"

\* C20: the amend flow makes no commit object and does not move the branch
\* pointer when its range contains a merge commit; rewrite_commits is not
\* reached or refuses.
C20_AmendRefusesMerges ==
  (command = "amend" /\ RangeHasMerge) =>
    /\ Len(objs) = objs0
    /\ head = head0
    /\ hpc = "done" => outcome \in {"merges", "aborted", "dirty"}

\* apply_fix_plan has been entered in this call
Entered == command = "fix" /\ plan # NoPlan

\* C21: when the working tree is not clean as apply_fix_plan is entered, the
\* call goes no further than its status test: it ends with the dirty-tree
\* error, having made no commit object and not moved the branch pointer,
\* whatever the plan and the range are; repeated, it ends the same way.
C21_DirtyTreeRefused ==
  (Entered /\ worktree0.uncommitted # "none") =>
    /\ hpc \in {"status", "done"}
    /\ hpc = "done" => outcome = "dirty"
    /\ Len(objs) = objs0 /\ Untouched
    /\ firstOutcome \in {"none", "dirty"}

\* C21 witness: a squash plan for a range of two commits or more was refused
\* twice for a file that is not tracked
C21_Witness ==
  /\ Entered /\ hpc = "done"
  /\ worktree0.uncommitted = "untracked"
  /\ firstOutcome = "dirty" /\ outcome = "dirty"
  /\ merge_strategy(plan) = "squash" /\ Len(commits) >= 2

\* the entries of the plan whose titles go into new commits: the first one
\* under the squash rule, all of them in a message-only rewrite
UsedEntries ==
  IF DropRule THEN {}
  ELSE IF SquashRule THEN {1} \cap DOMAIN plan.rewrittenCommits
  ELSE IF CountMismatch THEN {}
  ELSE DOMAIN plan.rewrittenCommits

\* C22 as stated: when an entry used for a new commit has an empty or
\* whitespace-only title, apply_fix_plan fails with the empty-title error (or
\* with the error of an earlier git command) and has not moved the branch, on
\* the squash path and on the message-only path.
C22_EmptyTitleAlwaysFails ==
  (Ruled /\ \E i \in UsedEntries : EmptyTitle(plan.rewrittenCommits[i].title)) =>
    outcome \in {"empty_title", "git_failed"} /\ Untouched

\* C22 amended: every commit apply_fix_plan makes has a trimmed, non-empty
\* title.  In a message-only rewrite an entry with an empty or whitespace-only
\* title ends the call with the empty-title error when its turn comes, the
\* commits of the entries before it made and the branch not moved.  Under the
\* squash rule a whitespace-only title ends the call the same way, while an
\* empty title is replaced by the default title and the squash goes through.
C22_EmptyTitleFailsUnlessDefaulted ==
  LET rewritten == plan.rewrittenCommits
      bad == {i \in UsedEntries : EmptyTitle(rewritten[i].title)}
  IN /\ command = "fix" =>
          \A c \in (objs0 + 1)..Len(objs) : objs[c].title # <<>>
     /\ (Ruled /\ ~SquashRule /\ bad # {}) =>
          /\ outcome \in {"empty_title", "git_failed"} /\ Untouched
          /\ outcome = "empty_title" => \E i \in bad : Len(objs) = objs0 + i - 1
     /\ (Ruled /\ SquashRule /\ bad # {}) =>
          IF truthy(rewritten[1].title)
            THEN outcome \in {"empty_title", "git_failed"} /\ Untouched
                   /\ Len(objs) = objs0
            ELSE /\ outcome \in {"squashed", "git_failed"}
                 /\ outcome = "squashed" => objs[head].title = DefaultTitle.words
     /\ (command = "fix" /\ outcome = "empty_title") => bad # {}

\* C22 witness: a message-only rewrite failed for the empty title of a later
\* entry after it had made a commit, and the branch still points where it did
C22_Witness ==
  /\ command = "fix" /\ hpc = "done" /\ outcome = "empty_title"
  /\ ~SquashRule /\ Len(objs) > objs0
  /\ \E i \in 2..Len(plan.rewrittenCommits) : ~truthy(plan.rewrittenCommits[i].title)
  /\ head = head0

\* the case of C23: a clean range without merges, the counts match and the
\* strategy is reorder or split
ReorderCase ==
  /\ Ruled /\ ~RangeHasMerge
  /\ ~CountMismatch
  /\ merge_strategy(plan) \in {"reorder", "split"}

\* the outcomes of the four rules, in the order of history.py:170-206
RuleOutcomes ==
  IF DropRule THEN {"dropped", "no_parent", "git_failed"}
  ELSE IF SquashRule THEN {"squashed", "empty_title", "git_failed"}
  ELSE IF CountMismatch THEN {"unsupported"}
  ELSE {"rewritten", "empty_title", "no_chain", "git_failed"}

\* the new commits are the commits of the range in their order, tree by tree,
\* chained from the base parent, and the branch points at the last
SameTreesSameOrder ==
  LET N == Len(commits)
  IN /\ Len(objs) = objs0 + N
     /\ head = objs0 + N
     /\ \A i \in 1..N :
          /\ objs[objs0 + i].tree = objs[commits[i]].tree
          /\ objs[objs0 + i].parents = IF i = 1 THEN OnBase ELSE <<objs0 + i - 1>>

\* C23 as stated: on a clean, merge-free, non-empty range the outcome is that
\* of the first applicable rule, and a plan with matching counts and strategy
\* reorder or split goes through the message-only rewrite.
C23_ReorderIsMessageOnly ==
  /\ (Ruled /\ ~RangeHasMerge) => outcome \in RuleOutcomes
  /\ ReorderCase =>
       /\ outcome \in {"rewritten", "empty_title", "no_chain", "git_failed"}
       /\ outcome = "rewritten" => SameTreesSameOrder

\* C23 amended: on a clean, merge-free, non-empty range the outcome is that of
\* the first applicable rule in the order drop, squash, count mismatch,
\* message-only rewrite.  A plan with matching counts and strategy reorder or
\* split never reorders: with two entries or more it is applied as a
\* message-only rewrite in the original order; with one entry for one commit
\* it falls under the squash rule, which keeps that commit's tree.
C23_ReorderNeverReorders ==
  /\ (Ruled /\ ~RangeHasMerge) => outcome \in RuleOutcomes
  /\ ReorderCase =>
       /\ IF Len(commits) >= 2
            THEN outcome \in {"rewritten", "empty_title", "no_chain", "git_failed"}
            ELSE outcome \in {"squashed", "empty_title", "git_failed"}
       /\ outcome \in {"rewritten", "squashed"} => SameTreesSameOrder
       /\ outcome \in Errors => Untouched

\* C23 witness: a reorder plan of as many entries as the range has commits,
\* two or more, has been applied
C23_Witness ==
  /\ ReorderCase /\ outcome = "rewritten"
  /\ merge_strategy(plan) = "reorder"
  /\ Len(commits) >= 2
  /\ objs[head].tree = objs[head0].tree

\* ---- properties of the validation ----------------------------------------

\* the conditions C27 names: the type is in the accepted set, the title is a
\* non-blank string of at most 75 characters, files is a non-empty list and
\* the body is absent or a string
StatedValid(c) ==
  /\ c.type.py = "str" /\ Len(c.type.v) = 1 /\ c.type.v[1] \in COMMIT_TYPES
  /\ c.title.py = "str" /\ ~Blank(c.title.v) /\ Len(c.title.v) <= TitleLimit
  /\ c.files.py = "list" /\ c.files.v # <<>>
  /\ c.body.py \in {"missing", "none", "str"}

\* the title has no line break, or one that ends it
OneLine(title) == \A i \in 1..(Len(title.v) - 1) : title.v[i] # "\n"

InApply == command \in {"commit", "apply"} /\ hpc \in {"loop", "add", "commit", "done"}

\* the proposal j has passed lint_commit_dict in this call of apply_commits
\* before the entry i of the log
LintedBefore(j, i) ==
  /\ \E h \in 1..(i - 1) : oplog[h] \in {<<"lint", j>>, <<"no_targets", j>>}
  /\ lint_commit_dict(commit_list[j]).raised = "none"

\* something has been logged for the proposal j
Considered(j) == \E i \in DOMAIN oplog : oplog[i][2] = j

\* the commits made in this call
NewCommits == (objs0 + 1)..Len(objs)

\* C24: every git add and git commit apply_commits runs for a proposal comes
\* after lint_commit_dict has passed that proposal in the same call; what is
\* staged and what the new commits are made of comes from proposals that have
\* passed it, and every new commit has the subject lint_commit_dict returned.
C24_ValidatedBeforeApplied ==
  InApply =>
    /\ \A i \in DOMAIN oplog :
         oplog[i][1] \in {"add", "add_failed", "commit", "commit_failed"} =>
           LintedBefore(oplog[i][2], i)
    /\ \A j \in staged : LintedBefore(j, Len(oplog) + 1)
    /\ \A c \in NewCommits :
         /\ objs[c].of # {}
         /\ \A j \in objs[c].of : LintedBefore(j, Len(oplog) + 1)
         /\ \E j \in objs[c].of :
              objs[c].title = lint_commit_dict(commit_list[j]).subject

\* C24 witness: the git commit of the first proposal failed, and the commit
\* of the second was made of the files of both
C24_Witness ==
  /\ InApply /\ hpc = "done" /\ outcome = "committed"
  /\ \E c \in NewCommits : objs[c].of = {1, 2}
  /\ <<"commit_failed", 1>> \in {oplog[i] : i \in DOMAIN oplog}

\* C25: when lint_commit_dict refuses one proposal of the list given to
\* apply_commits, nothing is staged or committed for that proposal and every
\* proposal after it is still taken up.
C25_InvalidCommitSkipped ==
  (command = "apply" /\ hpc = "done") =>
    \A j \in 1..Len(commit_list) :
      lint_commit_dict(commit_list[j]).raised # "none" =>
        /\ \A i \in DOMAIN oplog : oplog[i][2] = j => oplog[i][1] \in {"raised", "no_files"}
        /\ \A h \in (j + 1)..Len(commit_list) : Considered(h)

\* C26: when git add fails for a proposal, git commit is not run for it, the
\* call does not end with the failure, and the next proposal of the list is
\* taken up.
C26_StagingFailureSkipsOne ==
  InApply =>
    \A i \in DOMAIN oplog :
      oplog[i][1] = "add_failed" =>
        LET j == oplog[i][2]
        IN /\ \A h \in DOMAIN oplog : oplog[h] \notin {<<"commit", j>>, <<"commit_failed", j>>}
           /\ Len(committed_subjects) <= Len(commit_list) - 1
           /\ outcome # "git_failed"
           /\ IF i = Len(oplog)
                THEN k = j + 1 /\ (hpc = "loop" \/ (hpc = "done" /\ j = Len(commit_list)))
                ELSE oplog[i + 1][2] = j + 1
           /\ (hpc = "done" /\ j < Len(commit_list)) => Considered(j + 1)

\* C26 witness: git add failed for the first proposal after it had staged
\* some of its files, and the second proposal was committed
C26_Witness ==
  /\ InApply /\ hpc = "done" /\ outcome = "committed"
  /\ oplog[2] = <<"add_failed", 1>>
  /\ oplog[Len(oplog)] = <<"commit", 2>>
  /\ objs[head].of = {1, 2}
  /\ Len(committed_subjects) = 1

\* C28: with --dry-run the commit command and the amend_unpushed command end
\* once the plan is printed: apply_commits and rewrite_commits are not
\* entered, nothing is staged, no commit object is made, and the branch
\* pointer and the working tree stay as they were.
C28_DryRunChangesNothing ==
  (dry_run /\ command \in {"commit", "amend"}) =>
    /\ hpc \in {"cli", "ask", "done"}
    /\ hpc = "done" =>
         outcome \in {"dry_run", "no_files", "no_commits", "aborted", "ValueError", "TypeError"}
    /\ Len(objs) = objs0 /\ Untouched
    /\ staged = {} /\ oplog = <<>> /\ committed_subjects = <<>>

\* C28 witness: the commit command has ended a dry run over a list of two
\* valid proposals and a changed working tree
C28_Witness ==
  /\ command = "commit" /\ dry_run /\ hpc = "done" /\ outcome = "dry_run"
  /\ Len(commit_list) >= 2
  /\ worktree.uncommitted = "tracked"

\* ---- properties of the scheduler, continued ------------------------------

\* a step of thread t that leaves the place `at`
Leaves(t, at) == pc[t] = at /\ pc'[t] # at

\* the end of the window as _process_pending has it after lines 92-96
WindowEnd == WindowFor(next_run_time, last_run_time, now, interval)

\* C29: with an interval no apply run starts while the clock, read under the
\* lock, is before the end of the window; a callback that finds a change
\* pending, no run in progress and the window not ended starts no run but
\* calls _schedule_locked with the remaining time, which arms a timer with
\* that delay (a delay below zero counts as zero, line 65) unless the stop
\* flag has been set meanwhile.
C29_NoEarlyRun ==
  [][interval > 0 =>
       \A t \in Threads :
         /\ StartsRun(t) => now >= WindowEnd
         /\ (Leaves(t, "pp_cs") /\ ~processing /\ pending /\ now < WindowEnd) =>
              /\ pc'[t] = "sched_stop"
              /\ delay'[t] = WindowEnd - now
              /\ next_run_time' = WindowEnd
              /\ timer' = NoTimer
              /\ UNCHANGED <<pending, processing, last_run_time>>
         /\ (Leaves(t, "sched_stop") /\ ~stop) => pc'[t] = "sched_arm"
         /\ (Leaves(t, "sched_arm") /\ timer = NoTimer) =>
              \E s \in TimerIds : Arms(s) /\ timer' = s /\ due'[s] = now + Max(0, delay[t])
    ]_vars

\* C29 witness: no run has started yet, a timer callback has returned without
\* the stop flag set, and a timer is armed for the change still pending
C29_Witness ==
  /\ interval > 0 /\ ~stop /\ early
  /\ last_run_time = 0 /\ pending /\ ~processing
  /\ \E s1 \in TimerIds, s2 \in TimerIds :
       /\ pc[s1] = "returned"
       /\ pc[s2] = "armed" /\ timer = s2
       /\ due[s2] >= next_run_time

\* C30: a run starts only from a state in which a change is pending and no
\* run is in progress; a call of _process_pending that finds a run in
\* progress or nothing pending returns without starting a run or arming a
\* timer, and leaves pending, processing, last_run_time and next_run_time as
\* they were.
C30_RunOnlyWhenPendingAndIdle ==
  [][\A t \in Threads :
       /\ StartsRun(t) => pending /\ ~processing /\ processing' /\ ~pending'
       /\ (Leaves(t, "pp_cs") /\ (processing \/ ~pending)) =>
            /\ pc'[t] = Ret(t)
            /\ UNCHANGED <<pending, processing, last_run_time, next_run_time>>
            /\ \A s \in TimerIds : ~Arms(s)
            /\ lock' = NoThread
    ]_vars

\* C30 witness: a timer armed during a run has called back during that run
\* and has returned, the run still in progress
C30_Witness ==
  /\ processing /\ ~stop
  /\ \E t \in Threads : pc[t] = "apply"
  /\ \E s \in TimerIds : timer = s /\ pc[s] = "returned"

\* C31: the finally block does the same whether the apply routine returned or
\* raised: it clears processing and, when a change is pending and the stop
\* flag is clear, calls _schedule_locked with the delay to the end of the
\* window after the run (0 without an interval); _schedule_locked then acts
\* on the stop flag and the stored timer alone.
C31_FailedRunEndsLikeSuccess ==
  [][\A t \in Threads :
       /\ Leaves(t, "fin_lock") =>
            /\ ~processing'
            /\ UNCHANGED <<pending, timer, last_run_time>>
            /\ IF ~stop /\ pending
                 THEN /\ pc'[t] = "sched_stop" /\ lock' = t
                      /\ delay'[t] =
                           IF interval > 0
                             THEN Max(0, last_run_time + interval - now) ELSE 0
                      /\ interval > 0 => next_run_time' = last_run_time + interval
                 ELSE pc'[t] = Ret(t) /\ UNCHANGED <<lock, next_run_time>>
       /\ (exc[t] /\ Leaves(t, "sched_stop") /\ ~stop) => pc'[t] = "sched_arm"
       /\ (exc[t] /\ Leaves(t, "sched_arm") /\ ~(timer # NoTimer /\ is_alive(timer))) =>
            \E s \in TimerIds :
              Arms(s) /\ timer' = s /\ due'[s] = now + Max(0, delay[t])
    ]_vars

\* C31 witness: a run that raised has cleared processing in its finally block
\* and, a change being pending and the stop flag clear, is inside
\* _schedule_locked about to arm the timer of the follow-up
C31_Witness ==
  \E t \in Threads :
    /\ exc[t] /\ pc[t] = "sched_arm" /\ lock = t
    /\ ~processing /\ pending /\ ~stop
    /\ ~(timer # NoTimer /\ is_alive(timer))

\* a step in which thread t returns from _process_pending to its caller with
\* the exception of the apply routine in flight: every return but the
\* `return` of line 126, which is inside the finally block and discards it
Propagates(t) ==
  /\ exc[t]
  /\ pc[t] # Ret(t) /\ pc'[t] = Ret(t)
  /\ ~(pc[t] = "fin_lock" /\ stop)

\* C32: an exception raised by the apply routine never leaves
\* _process_pending: neither the timer callback nor on_any_event returns to
\* its caller with the exception in flight, with or without an interval.
C32_FailureSwallowed == [][\A t \in Threads : ~Propagates(t)]_vars

\* ---- properties of the watcher's apply routine ----------------------------

\* the log entry of a git commit that succeeded
IsCommit(e) == e[1] = "commit"

\* the proposal for which the new commit c was made
MadeFor(c) == SelectSeq(oplog, IsCommit)[c - objs0][2]

\* C33: when the watcher's apply routine has staged everything and applies the
\* proposed commits, every commit made contains the changes of the files of
\* its own proposal and no others, and git commit never finds the index empty
\* when the turn of a later proposal comes.
C33_StagedChangesSplit ==
  command = "watch" =>
    /\ \A c \in NewCommits : objs[c].of = {MadeFor(c)}
    /\ \A i \in DOMAIN oplog : oplog[i][1] # "nothing_to_commit"

\* ---- further properties of the scheduler ----------------------------------

\* C34: with an interval, the start of every apply run is at least interval
\* after the start of the run before it, by the handler's clock.
C34_RunsAnIntervalApart ==
  (interval > 0 /\ runlog.prevStart # NoTime) =>
    last_run_time - runlog.prevStart >= interval

\* C34 witness: a second run has started exactly one interval after the
\* first, for a change marked while the first run was in progress
C34_Witness ==
  /\ interval > 0 /\ runlog.prevStart # NoTime
  /\ last_run_time = runlog.prevStart + interval
  /\ runlog.prevDone # NoTime
  /\ processing /\ lastEv = "during"

\* the threads that will still call or are inside _process_pending or
\* _schedule_locked: an armed timer, a callback waiting for the lock or
\* inside the claiming section, and a thread inside _schedule_locked
OnItsWay == {t \in Threads : pc[t] \in {"armed", "pp_lock", "pp_cs", "sched_stop", "sched_arm"}}

\* C35: with an interval and the stop flag clear, whenever a change is pending
\* and no run is in progress, a timer is armed or a thread is on its way to
\* _process_pending or to arming one (here even when every timer calls back
\* on time).
C35_PendingAlwaysScheduled ==
  (interval > 0 /\ ~stop /\ ~early /\ pending /\ ~processing) => OnItsWay # {}

\* the timers armed and not yet fired
Armed == {s \in TimerIds : pc[s] = "armed"}

\* C36: at any time at most one timer is armed and not yet fired, with or
\* without an interval.
C36_AtMostOneArmedTimer == Cardinality(Armed) <= 1

\* the positions inside `with self._lock`, and those at which a thread asks
\* for the lock
InLock == {"pp_cs", "sched_stop", "sched_arm"}
AsksLock == {"ev_lock", "pp_lock", "fin_lock"}

\* the next step of the thread that holds the lock
HolderStep ==
  \/ ProcessBusy(lock) \/ ProcessNothing(lock) \/ ProcessEarly(lock) \/ ProcessClaim(lock)
  \/ ScheduleStopCheck(lock) \/ ScheduleKeep(lock)
  \/ \E s \in TimerIds : ScheduleArm(lock, s)

\* C37: the lock is held by a thread exactly while it is inside one of the
\* locked sections, so every way out of on_any_event and _process_pending has
\* released it; a thread that asks for the lock does not hold it; a timer
\* armed under the lock does not hold the lock, its callback asks for it from
\* its own thread; and the holder is never blocked: its next step can always
\* be taken (save where it needs a timer object and the MaxTimers of the model
\* are all in use).
C37_DeadlockFree ==
  /\ \A t \in Threads : lock = t <=> pc[t] \in InLock
  /\ \A t \in Threads : pc[t] \in AsksLock \cup {"armed", "apply"} => lock # t
  /\ lock # NoThread =>
       \/ ENABLED HolderStep
       \/ pc[lock] = "sched_arm" /\ \A s \in TimerIds : pc[s] # "dead"

\* C37 witness: a run has ended and its thread holds the lock inside
\* _schedule_locked, reached from the finally block, while a timer callback
\* waits for the lock
C37_Witness ==
  \E t \in Threads, s \in TimerIds :
    /\ lock = t /\ pc[t] = "sched_arm" /\ t # s
    /\ runlog.lastDone # NoTime /\ ~processing
    /\ pc[s] = "pp_lock"

\* ---- properties of apply_fix_plan under a concurrent commit ---------------

\* the newest commit of the range passed to apply_fix_plan
NewestOfRange == commits[Len(commits)]

\* C38: after a successful squash the commit the branch points to has the
\* tree of the newest commit of the range that was passed to apply_fix_plan.
C38_SquashKeepsRangeTree ==
  (command = "fix" /\ hpc = "done" /\ outcome = "squashed") =>
    objs[head].tree = objs[NewestOfRange].tree

\* ---- properties of rewrite_commits ------------------------------------------

\* C39: after a successful rewrite_commits the branch has the trees of the
\* amended commits in their order, and every uncommitted change of the
\* working tree present when the call started is still there, also when the
\* call was allowed on a dirty tree.
C39_RewriteKeepsUncommittedWork ==
  (command = "amend" /\ hpc = "done" /\ outcome = "rewritten") =>
    /\ LET line == FirstParentLine(head)
           n == Len(amendments)
       IN /\ Len(line) >= n
          /\ \A i \in 1..n :
               objs[line[Len(line) - n + i]].tree = objs[amendments[i].sha].tree
    /\ worktree.uncommitted = worktree0.uncommitted

\* ---- properties of amend_unpushed -----------------------------------------

\* the amend command has gone past the lookup of cli.py:132-140
PastLookup ==
  command = "amend" /\ (hpc \in {"merges", "status", "rewrite"}
                        \/ (hpc = "done" /\ outcome \notin {"no_commits", "aborted"}))

\* C40: amend_unpushed rewrites only when the oracle has returned an amendment
\* for every commit of the range: past the lookup the amendments are those of
\* the commits of the range, oldest first, whatever the order of the oracle's
\* list, and so are the trees of the commits made; an aborted command has
\* created no object and has left the branch where it was.
C40_AmendsWholeRangeInOrder ==
  /\ PastLookup =>
       /\ Len(amendments) = Len(commits)
       /\ \A i \in 1..Len(commits) : amendments[i].sha = commits[i]
  /\ (command = "amend" /\ (Len(objs) # objs0 \/ head # head0)) =>
       /\ PastLookup
       /\ \A j \in (objs0 + 1)..Len(objs) :
            objs[j].tree = objs[commits[j - objs0]].tree
  /\ (command = "amend" /\ hpc = "done" /\ outcome = "aborted") =>
       Len(objs) = objs0 /\ head = head0

\* a range of two commits rewritten from a list the oracle gave newest first
C40_Witness ==
  /\ command = "amend" /\ hpc = "done" /\ outcome = "rewritten"
  /\ Len(commits) = 2
  /\ amendments[1].subject.words = <<"title", 2>>
  /\ amendments[2].subject.words = <<"title", 1>>
  /\ head # head0 /\ Len(objs) = objs0 + 2
====
